---- MODULE Spec2Model ----
(***************************************************************************)
(* A model of the ECS core of plus3/ooftn: component pools, archetypes,    *)
(* Storage with its EntityRef table, and the command buffer of a tick.     *)
(*                                                                         *)
(* Representation.                                                         *)
(*   - A component type is a number of 1..NumTypes; the order of the       *)
(*     numbers is the order byTypeName gives the type names.               *)
(*   - A component value is a record [t, o, g]: its type t, the serial o   *)
(*     of the logical entity the caller made it for, and g = 0 for a value *)
(*     given at spawn, 1 for a value given to AddComponent.  NilComp is    *)
(*     the nil interface value.                                            *)
(*   - A pool (genericComponentStorage) keeps filled (the indices whose    *)
(*     filled bit is set), blocks (the cells of those indices; every other *)
(*     cell of an allocated block holds the zero value, which Delete and   *)
(*     Compact maintain), nblocks = len(blocks), freeSlots and nextIndex.  *)
(*   - An EntityRef is a heap cell heap[h] = [Id, Archetype, live]; live   *)
(*     is FALSE once the user dropped it and the collector reclaimed it,   *)
(*     so that weak.Pointer.Value() yields nil.  An archetype's refs table *)
(*     maps EntityIds to heap handles.                                     *)
(*   - EntityId and the archetype hash keep their shape at reduced width:  *)
(*     IndexSpace stands for 2^32, HashSpace for the 2^32 of the hash.     *)
(***************************************************************************)
EXTENDS Integers, Sequences, FiniteSets, TLC

\* ---------------------------------------------------------------- bounds

NumTypes == 3
NumCallTypes == 2
MaxSpawn == 2
MaxRefs == 2
MaxTypesLen == 3
MaxSlots == 2
MaxSteps == 6
MaxCmds == 3
MaxSystems == 2
MaxTicks == 2
NumDts == 2
MaxTickCmds == 2
MaxDirect == 2
MaxPoolSlots == 66
NumWrites == 2
MaxPoolCalls == 3
MaxCompactSlots == 4
MaxViewFields == 2
MaxCells == 3
MaxAccessors == 2
MaxValue == 2
MaxRunTicks == 1
MaxFailArgs == 2
MaxNanos == 2
NumEdge == 2
MaxApartSlots == 4
MaxReuse == 3

Types == 1..NumTypes

\* the types the callers of Spec use
CallTypes == 1..NumCallTypes

\* ------------------------------------------------------------- constants

genericBlockSize == 64

\* 1<<63 - 1, the largest time.Duration, at the width of the model's integers
MaxInt64 == 2147483647

\* 2166136261 and 16777619 reduced modulo HashSpace
HashSpace == 32768
IndexSpace == 65536
FnvOffset == 7621
FnvPrime == 403

\* ------------------------------------------------------------- utilities

NilComp == [t |-> 0, o |-> 0, g |-> 0]

\* the nil pointer
NoPointer == [arr |-> 0, index |-> 0]

EmptyMap == [k \in {} |-> 0]

MapPut(f, k, v) == [x \in (DOMAIN f) \cup {k} |-> IF x = k THEN v ELSE f[x]]

MapDel(f, k) == [x \in (DOMAIN f) \ {k} |-> f[x]]

RECURSIVE BitXor(_, _)
BitXor(a, b) ==
    IF a = 0 THEN b
    ELSE IF b = 0 THEN a
    ELSE ((a + b) % 2) + 2 * BitXor(a \div 2, b \div 2)

\* sort.Sort(byTypeName(types)): ascending, duplicates kept
RECURSIVE SortTypes(_)
SortTypes(s) ==
    IF Len(s) <= 1 THEN s
    ELSE LET m == CHOOSE i \in 1..Len(s) : \A j \in 1..Len(s) : s[i] <= s[j]
             rest == [k \in 1..(Len(s) - 1) |-> IF k < m THEN s[k] ELSE s[k + 1]]
         IN <<s[m]>> \o SortTypes(rest)

\* ------------------------------------------------------------- EntityId

NewEntityId(archetypeId, index) ==
    (archetypeId % HashSpace) * IndexSpace + (index % IndexSpace)

ArchetypeId(e) == (e \div IndexSpace) % HashSpace

Index(e) == e % IndexSpace

\* EntityId at its full width.  A uint32 is <<hi, lo>> and a uint64 is
\* <<l3, l2, l1, l0>>, most significant first, of limbs of 16 bits.
LimbMask == 65535

RECURSIVE BitOr(_, _)
BitOr(a, b) ==
    IF a = 0 THEN b
    ELSE IF b = 0 THEN a
    ELSE (IF a % 2 = 1 \/ b % 2 = 1 THEN 1 ELSE 0) + 2 * BitOr(a \div 2, b \div 2)

RECURSIVE BitAnd(_, _)
BitAnd(a, b) ==
    IF a = 0 \/ b = 0 THEN 0
    ELSE (IF a % 2 = 1 /\ b % 2 = 1 THEN 1 ELSE 0) + 2 * BitAnd(a \div 2, b \div 2)

\* an encoding that shifts the archetype id by 16 bits only
NewEntityIdShort(archetypeId, index) ==
    LET shifted == <<0, archetypeId[1], archetypeId[2], 0>>
        low == <<0, 0, index[1], index[2]>>
    IN [k \in 1..4 |-> BitOr(shifted[k], low[k])]

\* uint64(archetypeId)<<32 | uint64(index)
NewEntityId64(archetypeId, index) ==
    LET shifted == <<archetypeId[1], archetypeId[2], 0, 0>>
        low == <<0, 0, index[1], index[2]>>
    IN [k \in 1..4 |-> BitOr(shifted[k], low[k])]

\* uint32(e >> 32)
ArchetypeId64(e) ==
    LET shifted == <<0, 0, e[1], e[2]>>
    IN <<shifted[3], shifted[4]>>

\* uint32(e & 0xFFFFFFFF)
Index64(e) ==
    LET mask == <<0, 0, LimbMask, LimbMask>>
        masked == [k \in 1..4 |-> BitAnd(e[k], mask[k])]
    IN <<masked[3], masked[4]>>

\* the address the runtime gives the type descriptor of t
typeId(t) == 64 * t

RECURSIVE hashFold(_, _, _)
hashFold(h, types, i) ==
    IF i > Len(types) THEN h
    ELSE hashFold((BitXor(h, typeId(types[i])) * FnvPrime) % HashSpace, types, i + 1)

hashTypesToUint32(types) == hashFold(FnvOffset, types, 1)

\* ------------------------------------------------- genericComponentStorage

NewPool(T) ==
    [typ |-> T, blocks |-> EmptyMap, filled |-> {}, nblocks |-> 0,
     freeSlots |-> <<>>, nextIndex |-> 0]

\* an Append that takes a slot from the freelist and leaves its bit unset
csAppendLeavesBit(cs, item) ==
    IF item.t # cs.typ THEN [cs |-> cs, index |-> -1]
    ELSE IF Len(cs.freeSlots) > 0 THEN
        LET index == cs.freeSlots[Len(cs.freeSlots)]
        IN [cs |-> [cs EXCEPT !.freeSlots = SubSeq(@, 1, Len(@) - 1),
                              !.blocks = MapPut(@, index, item)],
            index |-> index]
    ELSE
        LET index == cs.nextIndex
            blockIdx == index \div genericBlockSize
        IN [cs |-> [cs EXCEPT !.nextIndex = @ + 1,
                              !.nblocks = IF blockIdx >= @ THEN @ + 1 ELSE @,
                              !.blocks = MapPut(@, index, item),
                              !.filled = @ \cup {index}],
            index |-> index]

\* an Append that takes the slot released first
csAppendOldestFirst(cs, item) ==
    IF item.t # cs.typ THEN [cs |-> cs, index |-> -1]
    ELSE IF Len(cs.freeSlots) > 0 THEN
        LET index == cs.freeSlots[1]
        IN [cs |-> [cs EXCEPT !.freeSlots = Tail(@),
                              !.blocks = MapPut(@, index, item),
                              !.filled = @ \cup {index}],
            index |-> index]
    ELSE
        LET index == cs.nextIndex
            blockIdx == index \div genericBlockSize
        IN [cs |-> [cs EXCEPT !.nextIndex = @ + 1,
                              !.nblocks = IF blockIdx >= @ THEN @ + 1 ELSE @,
                              !.blocks = MapPut(@, index, item),
                              !.filled = @ \cup {index}],
            index |-> index]

csAppend(cs, item) ==
    IF item.t # cs.typ THEN [cs |-> cs, index |-> -1]
    ELSE IF Len(cs.freeSlots) > 0 THEN
        LET index == cs.freeSlots[Len(cs.freeSlots)]
        IN [cs |-> [cs EXCEPT !.freeSlots = SubSeq(@, 1, Len(@) - 1),
                              !.blocks = MapPut(@, index, item),
                              !.filled = @ \cup {index}],
            index |-> index]
    ELSE
        LET index == cs.nextIndex
            blockIdx == index \div genericBlockSize
        IN [cs |-> [cs EXCEPT !.nextIndex = @ + 1,
                              !.nblocks = IF blockIdx >= @ THEN @ + 1 ELSE @,
                              !.blocks = MapPut(@, index, item),
                              !.filled = @ \cup {index}],
            index |-> index]

csGet(cs, index) ==
    IF index < 0 THEN NilComp
    ELSE IF index \div genericBlockSize >= cs.nblocks THEN NilComp
    ELSE IF index \notin cs.filled THEN NilComp
    ELSE cs.blocks[index]

\* a Delete that releases the slot whether or not it is filled
csDeleteUnfilled(cs, index) ==
    IF index < 0 THEN cs
    ELSE IF index \div genericBlockSize >= cs.nblocks THEN cs
    ELSE [cs EXCEPT !.filled = @ \ {index},
                    !.blocks = MapDel(@, index),
                    !.freeSlots = Append(@, index)]

csDelete(cs, index) ==
    IF index < 0 THEN cs
    ELSE IF index \div genericBlockSize >= cs.nblocks THEN cs
    ELSE IF index \in cs.filled
         THEN [cs EXCEPT !.filled = @ \ {index},
                         !.blocks = MapDel(@, index),
                         !.freeSlots = Append(@, index)]
         ELSE cs

csHas(cs, index) ==
    IF index < 0 THEN FALSE
    ELSE IF index \div genericBlockSize >= cs.nblocks THEN FALSE
    ELSE index \in cs.filled

\* the indices Iter yields, in ascending order
csIter(cs) ==
    {i \in 0..(cs.nextIndex - 1) :
        i \div genericBlockSize < cs.nblocks /\ i \in cs.filled}

\* Compact that keeps the freelist and the next fresh index it had
csCompactKeepFreelist(cs) ==
    LET read == {i \in 0..(cs.nextIndex - 1) : i \in cs.filled}
        indexMap == [old \in read |-> Cardinality({j \in read : j < old})]
        writePos == Cardinality(read)
        inv == [new \in 0..(writePos - 1) |->
                    CHOOSE old \in read : indexMap[old] = new]
    IN [cs |-> [cs EXCEPT !.blocks = [new \in 0..(writePos - 1) |->
                                          cs.blocks[inv[new]]],
                          !.filled = 0..(writePos - 1)],
        indexMap |-> indexMap,
        panic |-> FALSE]

\* Compact: [cs, indexMap, panic].  panic: a write past the new blocks, which
\* are sized from nextIndex - len(freeSlots)
csCompact(cs) ==
    LET totalComponents == cs.nextIndex - Len(cs.freeSlots)
    IN IF cs.nextIndex = 0 \/ totalComponents = 0 THEN
           [cs |-> [cs EXCEPT !.blocks = EmptyMap, !.filled = {}, !.nblocks = 1,
                              !.freeSlots = <<>>, !.nextIndex = 0],
            indexMap |-> EmptyMap, panic |-> FALSE]
       ELSE
           LET numNewBlocks ==
                   (totalComponents + genericBlockSize - 1) \div genericBlockSize
               read == {i \in 0..(cs.nextIndex - 1) : i \in cs.filled}
               indexMap == [old \in read |-> Cardinality({j \in read : j < old})]
               writePos == Cardinality(read)
               inv == [new \in 0..(writePos - 1) |->
                           CHOOSE old \in read : indexMap[old] = new]
           IN [cs |-> [cs EXCEPT !.blocks = [new \in 0..(writePos - 1) |->
                                                 cs.blocks[inv[new]]],
                                 !.filled = 0..(writePos - 1),
                                 !.nblocks = numNewBlocks,
                                 !.freeSlots = <<>>,
                                 !.nextIndex = writePos],
               indexMap |-> indexMap,
               panic |-> writePos > numNewBlocks * genericBlockSize]

\* --------------------------------------------------------------- Archetype

\* The types beyond Types: Unregistered is a struct type that was never given
\* to RegisterComponent, and BadTypes are the types whose kind, after the one
\* pointer dereference of extractComponentTypes, is Ptr, Map, Chan or Func.
Unregistered == NumTypes + 1

BadTypes == (NumTypes + 2)..(NumTypes + 5)

Kind(t) ==
    IF t = NumTypes + 2 THEN "Ptr"
    ELSE IF t = NumTypes + 3 THEN "Map"
    ELSE IF t = NumTypes + 4 THEN "Chan"
    ELSE IF t = NumTypes + 5 THEN "Func"
    ELSE "Struct"

\* ComponentRegistry.getFactory: the factory of the pool of type t, 0 (nil)
\* when t is not registered; every type of Types is registered
getFactory(t) == IF t \in Types THEN t ELSE 0

\* NewArchetype panics when a type of types has no factory
NewArchetypePanics(types) ==
    \E idx \in 1..Len(types) : getFactory(types[idx]) = 0

\* NewArchetype when every type has a factory
NewArchetype(id, types) ==
    [id |-> id, types |-> types,
     storages |-> [idx \in 1..Len(types) |-> NewPool(types[idx])],
     refs |-> EmptyMap]

\* the inner loop of Archetype.Spawn for one component: Append to every
\* storage whose type is the component's; storagePos is the last index got
SpawnOne(a, comp, storagePos) ==
    LET hit == {idx \in 1..Len(a.types) : a.types[idx] = comp.t}
        res == [idx \in 1..Len(a.types) |->
                    IF idx \in hit THEN csAppend(a.storages[idx], comp)
                    ELSE [cs |-> a.storages[idx], index |-> storagePos]]
        last == CHOOSE idx \in hit : \A j \in hit : j <= idx
    IN [a |-> [a EXCEPT !.storages = [idx \in 1..Len(a.types) |-> res[idx].cs]],
        pos |-> IF hit = {} THEN storagePos ELSE res[last].index]

\* Archetype.Spawn: [a, pos, panic].  A nil component panics at
\* reflect.TypeOf(comp).Kind(), after the components before it were appended
RECURSIVE SpawnLoop(_, _, _, _)
SpawnLoop(a, components, i, storagePos) ==
    IF i > Len(components) THEN
        [a |-> a, pos |-> storagePos % IndexSpace, panic |-> FALSE]
    ELSE IF components[i] = NilComp THEN
        [a |-> a, pos |-> storagePos % IndexSpace, panic |-> TRUE]
    ELSE LET r == SpawnOne(a, components[i], storagePos)
         IN SpawnLoop(r.a, components, i + 1, r.pos)

ArchetypeSpawn(a, components) == SpawnLoop(a, components, 1, 0)

ArchetypeGetComponent(a, entityIndex, compType) ==
    LET hit == {i \in 1..Len(a.types) : a.types[i] = compType}
    IN IF hit = {} THEN NilComp
       ELSE LET idx == CHOOSE i \in hit : \A j \in hit : i <= j
            IN csGet(a.storages[idx], entityIndex)

ArchetypeHasComponent(a, compType) ==
    \E i \in 1..Len(a.types) : a.types[i] = compType

\* weak.Pointer.Value(): the ref, or 0 (nil) once it was reclaimed
WeakValue(heap, h) == IF heap[h].live THEN h ELSE 0

ZeroRef(heap, h) == [heap EXCEPT ![h].Id = 0, ![h].Archetype = 0]

\* Archetype.Delete on archetype aid of world w
ArchetypeDelete(w, aid, entityIndex) ==
    LET a == w.archetypes[aid]
        entityId == NewEntityId(a.id, entityIndex)
        ok == entityId \in DOMAIN a.refs
        heap1 == IF ok /\ WeakValue(w.heap, a.refs[entityId]) # 0
                 THEN ZeroRef(w.heap, a.refs[entityId])
                 ELSE w.heap
        refs1 == IF ok THEN MapDel(a.refs, entityId) ELSE a.refs
        a1 == [a EXCEPT !.refs = refs1,
                        !.storages = [i \in 1..Len(a.storages) |->
                                          csDelete(a.storages[i], entityIndex)]]
    IN [w EXCEPT !.archetypes[aid] = a1, !.heap = heap1]

\* the EntityIds Archetype.Iter yields
ArchetypeIter(a) ==
    IF Len(a.storages) = 0 THEN {}
    ELSE {NewEntityId(a.id, index) : index \in csIter(a.storages[1])}

\* a Compact that puts the refs back under the ids they had before it
ArchetypeCompactKeysOldIds(w, aid) ==
    LET a == w.archetypes[aid]
    IN IF Len(a.storages) = 0 THEN [w |-> w, panic |-> FALSE]
       ELSE
        LET c == [i \in 1..Len(a.storages) |-> csCompact(a.storages[i])]
            indexMap == c[1].indexMap
            \* the old indices whose table entry holds a ref that still lives
            moved == {oldIdx \in DOMAIN indexMap :
                        /\ NewEntityId(a.id, oldIdx) \in DOMAIN a.refs
                        /\ WeakValue(w.heap, a.refs[NewEntityId(a.id, oldIdx)]) # 0}
            heap1 == [h \in DOMAIN w.heap |->
                        IF \E oldIdx \in moved : a.refs[NewEntityId(a.id, oldIdx)] = h
                        THEN LET oldIdx == CHOOSE o \in moved :
                                              a.refs[NewEntityId(a.id, o)] = h
                             IN [w.heap[h] EXCEPT
                                    !.Id = NewEntityId(a.id, indexMap[oldIdx])]
                        ELSE w.heap[h]]
            updatedRefs == [oldId \in {NewEntityId(a.id, o) : o \in moved} |->
                              a.refs[oldId]]
            a1 == [a EXCEPT !.storages = [i \in 1..Len(a.storages) |-> c[i].cs],
                            !.refs = updatedRefs]
        IN [w |-> [w EXCEPT !.archetypes[aid] = a1, !.heap = heap1],
            panic |-> \E i \in 1..Len(a.storages) : c[i].panic]

\* Archetype.Compact: [w, panic]
ArchetypeCompact(w, aid) ==
    LET a == w.archetypes[aid]
    IN IF Len(a.storages) = 0 THEN [w |-> w, panic |-> FALSE]
       ELSE
        LET c == [i \in 1..Len(a.storages) |-> csCompact(a.storages[i])]
            indexMap == c[1].indexMap
            \* the old indices whose table entry holds a ref that still lives
            moved == {oldIdx \in DOMAIN indexMap :
                        /\ NewEntityId(a.id, oldIdx) \in DOMAIN a.refs
                        /\ WeakValue(w.heap, a.refs[NewEntityId(a.id, oldIdx)]) # 0}
            heap1 == [h \in DOMAIN w.heap |->
                        IF \E oldIdx \in moved : a.refs[NewEntityId(a.id, oldIdx)] = h
                        THEN LET oldIdx == CHOOSE o \in moved :
                                              a.refs[NewEntityId(a.id, o)] = h
                             IN [w.heap[h] EXCEPT
                                    !.Id = NewEntityId(a.id, indexMap[oldIdx])]
                        ELSE w.heap[h]]
            updatedRefs == [newId \in {NewEntityId(a.id, indexMap[o]) : o \in moved} |->
                              LET o == CHOOSE o \in moved :
                                           NewEntityId(a.id, indexMap[o]) = newId
                              IN a.refs[NewEntityId(a.id, o)]]
            a1 == [a EXCEPT !.storages = [i \in 1..Len(a.storages) |-> c[i].cs],
                            !.refs = updatedRefs]
        IN [w |-> [w EXCEPT !.archetypes[aid] = a1, !.heap = heap1],
            panic |-> \E i \in 1..Len(a.storages) : c[i].panic]

\* ----------------------------------------------------------------- Storage
\* A world w is [archetypes, heap]: Storage.archetypes (archetype id ->
\* Archetype) and the EntityRef objects allocated so far.

NewStorage == [archetypes |-> EmptyMap, heap |-> <<>>]

\* extractComponentTypes panics on a component of a disallowed kind
extractPanics(components) ==
    \E i \in 1..Len(components) :
        Kind(components[i].t) \in {"Ptr", "Map", "Chan", "Func"}

\* extractComponentTypes: the sorted types of the components
extractComponentTypes(components) ==
    SortTypes([i \in 1..Len(components) |-> components[i].t])

\* s.archetypes[id], created first when it does not exist
EnsureArchetype(w, archetypeId, types) ==
    IF archetypeId \in DOMAIN w.archetypes THEN w
    ELSE [w EXCEPT !.archetypes =
              MapPut(@, archetypeId, NewArchetype(archetypeId, types))]

\* a Spawn that stores the new archetype before its pools are made
SpawnStoresFirst(w, components) ==
    IF Len(components) = 0 \/ extractPanics(components)
    THEN [w |-> w, id |-> 0, panic |-> TRUE]
    ELSE
        LET types == extractComponentTypes(components)
            archetypeId == hashTypesToUint32(types)
            w1 == EnsureArchetype(w, archetypeId, types)
        IN IF archetypeId \notin DOMAIN w.archetypes /\ NewArchetypePanics(types)
           THEN [w |-> w1, id |-> 0, panic |-> TRUE]
           ELSE LET r == ArchetypeSpawn(w1.archetypes[archetypeId], components)
                IN [w |-> [w1 EXCEPT !.archetypes[archetypeId] = r.a],
                    id |-> NewEntityId(archetypeId, r.pos),
                    panic |-> r.panic]

\* Storage.Spawn: [w, id, panic].  The panics of extractComponentTypes and of
\* NewArchetype come before s.archetypes is assigned
Spawn(w, components) ==
    IF Len(components) = 0 \/ extractPanics(components)
    THEN [w |-> w, id |-> 0, panic |-> TRUE]
    ELSE
        LET types == extractComponentTypes(components)
            archetypeId == hashTypesToUint32(types)
        IN IF archetypeId \notin DOMAIN w.archetypes /\ NewArchetypePanics(types)
           THEN [w |-> w, id |-> 0, panic |-> TRUE]
           ELSE LET w1 == EnsureArchetype(w, archetypeId, types)
                    r == ArchetypeSpawn(w1.archetypes[archetypeId], components)
                IN [w |-> [w1 EXCEPT !.archetypes[archetypeId] = r.a],
                    id |-> NewEntityId(archetypeId, r.pos),
                    panic |-> r.panic]

\* Storage.Delete
Delete(w, id) ==
    IF ArchetypeId(id) \notin DOMAIN w.archetypes THEN w
    ELSE ArchetypeDelete(w, ArchetypeId(id), Index(id))

\* a migration that invalidates the entity's ref where it should move it
MigrateInvalidatesRef(w1, id, newArchetypeId, components) ==
    LET oldId == ArchetypeId(id)
        old == w1.archetypes[oldId]
        hasRef == id \in DOMAIN old.refs
        weakPtr == IF hasRef THEN old.refs[id] ELSE 0
        r == ArchetypeSpawn(w1.archetypes[newArchetypeId], components)
        w2 == [w1 EXCEPT !.archetypes[newArchetypeId] = r.a]
        newId == NewEntityId(newArchetypeId, r.pos)
        w3 == IF hasRef
              THEN [[w2 EXCEPT !.heap = IF WeakValue(w2.heap, weakPtr) # 0
                                        THEN ZeroRef(w2.heap, weakPtr) ELSE w2.heap]
                       EXCEPT !.archetypes[oldId].refs = MapDel(@, id)]
              ELSE w2
    IN IF r.panic THEN [w |-> w2, id |-> 0, panic |-> TRUE]
       ELSE [w |-> ArchetypeDelete(w3, oldId, Index(id)), id |-> newId,
             panic |-> FALSE]

\* the tail shared by AddComponent and RemoveComponent: spawn the components
\* into the new archetype, move the EntityRef, delete the old slot
Migrate(w1, id, newArchetypeId, components) ==
    LET oldId == ArchetypeId(id)
        old == w1.archetypes[oldId]
        hasRef == id \in DOMAIN old.refs
        weakPtr == IF hasRef THEN old.refs[id] ELSE 0
        r == ArchetypeSpawn(w1.archetypes[newArchetypeId], components)
        w2 == [w1 EXCEPT !.archetypes[newArchetypeId] = r.a]
        newId == NewEntityId(newArchetypeId, r.pos)
        heap3 == IF hasRef /\ WeakValue(w2.heap, weakPtr) # 0
                 THEN [w2.heap EXCEPT ![weakPtr].Id = newId,
                                      ![weakPtr].Archetype = newArchetypeId]
                 ELSE w2.heap
        w3 == IF hasRef
              THEN [[[w2 EXCEPT !.heap = heap3]
                        EXCEPT !.archetypes[oldId].refs = MapDel(@, id)]
                        EXCEPT !.archetypes[newArchetypeId].refs =
                                   MapPut(@, newId, weakPtr)]
              ELSE w2
    IN IF r.panic THEN [w |-> w2, id |-> 0, panic |-> TRUE]
       ELSE [w |-> ArchetypeDelete(w3, oldId, Index(id)), id |-> newId,
             panic |-> FALSE]

\* Storage.AddComponent: [w, id, panic].  A missing archetype is a nil
\* dereference at oldArchetype.types
AddComponent(w, id, component) ==
    IF ArchetypeId(id) \notin DOMAIN w.archetypes
    THEN [w |-> w, id |-> 0, panic |-> TRUE]
    ELSE
        LET oldArchetype == w.archetypes[ArchetypeId(id)]
            compType == component.t
            newTypes == SortTypes(Append(oldArchetype.types, compType))
            newArchetypeId == hashTypesToUint32(newTypes)
            w1 == EnsureArchetype(w, newArchetypeId, newTypes)
            components == [i \in 1..Len(newTypes) |->
                              IF newTypes[i] = compType THEN component
                              ELSE ArchetypeGetComponent(oldArchetype, Index(id),
                                                         newTypes[i])]
        IN Migrate(w1, id, newArchetypeId, components)

\* Storage.RemoveComponent: [w, id, panic]
RemoveComponent(w, id, compType) ==
    IF ArchetypeId(id) \notin DOMAIN w.archetypes
    THEN [w |-> w, id |-> 0, panic |-> TRUE]
    ELSE
        LET oldId == ArchetypeId(id)
            oldArchetype == w.archetypes[oldId]
            newTypes == SelectSeq(oldArchetype.types, LAMBDA typ : typ # compType)
            hasRef == id \in DOMAIN oldArchetype.refs
            weakPtr == IF hasRef THEN oldArchetype.refs[id] ELSE 0
        IN IF Len(newTypes) = 0 THEN
               LET heap1 == IF hasRef /\ WeakValue(w.heap, weakPtr) # 0
                            THEN ZeroRef(w.heap, weakPtr) ELSE w.heap
                   w1 == IF hasRef
                         THEN [[w EXCEPT !.heap = heap1]
                                  EXCEPT !.archetypes[oldId].refs = MapDel(@, id)]
                         ELSE w
               IN [w |-> ArchetypeDelete(w1, oldId, Index(id)), id |-> 0,
                   panic |-> FALSE]
           ELSE
               LET newArchetypeId == hashTypesToUint32(newTypes)
                   w1 == EnsureArchetype(w, newArchetypeId, newTypes)
                   components == [i \in 1..Len(newTypes) |->
                                     ArchetypeGetComponent(oldArchetype, Index(id),
                                                           newTypes[i])]
               IN Migrate(w1, id, newArchetypeId, components)

GetComponent(w, id, compType) ==
    IF ArchetypeId(id) \notin DOMAIN w.archetypes THEN NilComp
    ELSE ArchetypeGetComponent(w.archetypes[ArchetypeId(id)], Index(id), compType)

HasComponent(w, id, compType) ==
    IF ArchetypeId(id) \notin DOMAIN w.archetypes THEN FALSE
    ELSE ArchetypeHasComponent(w.archetypes[ArchetypeId(id)], compType)

\* Storage.CollectStats: ArchetypeCount and TotalEntityCount, the entities
\* counted by iterating the first pool of every archetype
RECURSIVE CountEntities(_, _)
CountEntities(w, aids) ==
    IF aids = {} THEN 0
    ELSE LET aid == CHOOSE x \in aids : TRUE
             archetype == w.archetypes[aid]
             entityCount == IF Len(archetype.storages) > 0
                            THEN Cardinality(csIter(archetype.storages[1]))
                            ELSE 0
         IN entityCount + CountEntities(w, aids \ {aid})

CollectStats(w) ==
    [ArchetypeCount |-> Cardinality(DOMAIN w.archetypes),
     TotalEntityCount |-> CountEntities(w, DOMAIN w.archetypes)]

\* Storage.CreateEntityRef: [w, ref]; ref = 0 is the nil result
CreateEntityRef(w, id) ==
    IF ArchetypeId(id) \notin DOMAIN w.archetypes THEN [w |-> w, ref |-> 0]
    ELSE
        LET aid == ArchetypeId(id)
            archetype == w.archetypes[aid]
            ok == id \in DOMAIN archetype.refs
        IN IF ok /\ WeakValue(w.heap, archetype.refs[id]) # 0
           THEN [w |-> w, ref |-> archetype.refs[id]]
           ELSE LET ref == Len(w.heap) + 1
                IN [w |-> [[w EXCEPT !.heap = Append(@, [Id |-> id, Archetype |-> aid,
                                                         live |-> TRUE])]
                              EXCEPT !.archetypes[aid].refs = MapPut(@, id, ref)],
                    ref |-> ref]

\* Storage.ResolveEntityRef: <<id, ok>>; ref = 0 is the nil ref
ResolveEntityRef(w, ref) ==
    IF ref = 0 THEN <<0, FALSE>>
    ELSE IF w.heap[ref].Id = 0 THEN <<0, FALSE>>
    ELSE <<w.heap[ref].Id, TRUE>>

\* InvalidateEntityRef without the removal of the weak-table entry
InvalidateEntityRefKeepEntry(w, ref) ==
    IF ref = 0 \/ w.heap[ref].Id = 0 THEN [w |-> w, ok |-> FALSE]
    ELSE [w |-> [w EXCEPT !.heap = ZeroRef(@, ref)], ok |-> TRUE]

\* Storage.InvalidateEntityRef: [w, ok]
InvalidateEntityRef(w, ref) ==
    IF ref = 0 \/ w.heap[ref].Id = 0 THEN [w |-> w, ok |-> FALSE]
    ELSE
        LET id == w.heap[ref].Id
            aid == ArchetypeId(id)
            w1 == IF aid \in DOMAIN w.archetypes
                  THEN [w EXCEPT !.archetypes[aid].refs = MapDel(@, id)]
                  ELSE w
        IN [w |-> [w1 EXCEPT !.heap = ZeroRef(@, ref)], ok |-> TRUE]

\* -------------------------------------------------------------------- View
\* A view v is [types, optional]: the component types of the fields of its
\* struct, in field order, and for each field whether it is tagged optional.
\* A field of a yielded record is the value its pointer leads to, NilComp for
\* a nil pointer.

\* the elements of a finite set of integers in ascending order
RECURSIVE Ascending(_)
Ascending(S) ==
    IF S = {} THEN <<>>
    ELSE LET m == CHOOSE x \in S : \A y \in S : x <= y
         IN <<m>> \o Ascending(S \ {m})

\* matchesArchetype that asks for the optional types as well
matchesArchetypeStrict(v, a) ==
    \A i \in 1..Len(v.types) : ArchetypeHasComponent(a, v.types[i])

matchesArchetype(v, a) ==
    \A i \in 1..Len(v.types) :
        IF v.optional[i] THEN TRUE ELSE ArchetypeHasComponent(a, v.types[i])

\* the index of the pool of each field's type in the archetype, 0 for -1
buildStorageIndices(v, a) ==
    [i \in 1..Len(v.types) |->
        LET hit == {idx \in 1..Len(a.types) : a.types[idx] = v.types[i]}
        IN IF hit = {} THEN 0
           ELSE CHOOSE idx \in hit : \A j \in hit : idx <= j]

\* populateResult: [ok, result]
populateResult(v, a, entityIndex, storageIndices) ==
    LET result == [i \in 1..Len(v.types) |->
                      IF storageIndices[i] = 0 THEN NilComp
                      ELSE csGet(a.storages[storageIndices[i]], entityIndex)]
    IN [ok |-> \A i \in 1..Len(v.types) :
                   IF result[i] = NilComp THEN v.optional[i] ELSE TRUE,
        result |-> result]

\* what View.Iter yields from the archetypes in `matching`, as the sequence
\* of [id, result]; the archetypes come in ascending order of their ids where
\* the code ranges over a map
RECURSIVE IterArchetypes(_, _, _)
IterArchetypes(w, v, matching) ==
    IF matching = <<>> THEN <<>>
    ELSE LET archetypeId == Head(matching)
             archetype == w.archetypes[archetypeId]
             storageIndices == buildStorageIndices(v, archetype)
             slots == IF Len(archetype.storages) = 0 THEN <<>>
                      ELSE Ascending(csIter(archetype.storages[1]))
             all == [k \in 1..Len(slots) |->
                        [id |-> NewEntityId(archetypeId, slots[k]),
                         result |-> populateResult(v, archetype, slots[k],
                                                   storageIndices).result,
                         ok |-> populateResult(v, archetype, slots[k],
                                               storageIndices).ok]]
             kept == SelectSeq(all, LAMBDA y : y.ok)
         IN [k \in 1..Len(kept) |-> [id |-> kept[k].id, result |-> kept[k].result]]
                \o IterArchetypes(w, v, Tail(matching))

ViewIter(w, v) ==
    IterArchetypes(w, v,
        SelectSeq(Ascending(DOMAIN w.archetypes),
                  LAMBDA aid : matchesArchetype(v, w.archetypes[aid])))

\* View.Fill(id, ptr): [ok, result]; the storage indices the view caches
\* for an archetype are those buildStorageIndices gives
ViewFill(w, v, id) ==
    IF ArchetypeId(id) \notin DOMAIN w.archetypes
    THEN [ok |-> FALSE, result |-> <<>>]
    ELSE LET archetype == w.archetypes[ArchetypeId(id)]
             storageIndices == buildStorageIndices(v, archetype)
             result == [i \in 1..Len(v.types) |->
                           IF storageIndices[i] = 0 THEN NilComp
                           ELSE csGet(archetype.storages[storageIndices[i]], Index(id))]
         IN [ok |-> \A i \in 1..Len(v.types) :
                        IF result[i] = NilComp THEN v.optional[i] ELSE TRUE,
             result |-> result]

\* View.Get(id): the record, or <<>> for nil
ViewGet(w, v, id) ==
    IF ViewFill(w, v, id).ok THEN ViewFill(w, v, id).result ELSE <<>>

\* the views of up to MaxViewFields fields of distinct types
ViewShapes ==
    UNION {{[types |-> types, optional |-> optional] :
                types \in {t \in [1..n -> Types] :
                              \A i, j \in 1..n : t[i] = t[j] => i = j},
                optional \in [1..n -> BOOLEAN]} : n \in 1..MaxViewFields}

\* ------------------------------------------------------------------- Query
\* A query q is [view, cachedArchetypes, lastArchetypeCount]; the cached
\* archetypes are named by their ids, and NilList is the nil slice.

NilList == <<-1>>

NewQuery(v) ==
    [view |-> v, cachedArchetypes |-> NilList, lastArchetypeCount |-> -1]

\* a Query that never drops its cached archetypes
invalidateNever(w, q) == q

invalidateIfNeeded(w, q) ==
    LET currentCount == Cardinality(DOMAIN w.archetypes)
    IN IF currentCount # q.lastArchetypeCount
       THEN [q EXCEPT !.cachedArchetypes = NilList,
                      !.lastArchetypeCount = currentCount]
       ELSE q

ensureArchetypeCache(w, q) ==
    IF q.cachedArchetypes # NilList THEN q
    ELSE [q EXCEPT !.cachedArchetypes =
              SelectSeq(Ascending(DOMAIN w.archetypes),
                        LAMBDA aid : matchesArchetype(q.view, w.archetypes[aid]))]

\* Query.Iter: [q, yields]
QueryIter(w, q) ==
    LET q1 == ensureArchetypeCache(w, invalidateIfNeeded(w, q))
    IN [q |-> q1, yields |-> IterArchetypes(w, q1.view, q1.cachedArchetypes)]

\* -------------------------------------------------------------- singletons
\* The singletons of a Storage are st = [singletons, cells]: the entry of a
\* type holds the address of its cell, a cell holds a value, 0 is nil.

\* Storage.AddSingleton: [st, dataPtr]; a new cell takes the value, and the
\* entry of the type is replaced by one that points to it
AddSingleton(st, T, value) ==
    [st |-> [singletons |-> MapPut(st.singletons, T, Len(st.cells) + 1),
             cells |-> Append(st.cells, value)],
     dataPtr |-> Len(st.cells) + 1]

\* the dataPtr of the entry ReadSingleton and GetSingleton find, 0 if none
ReadSingleton(st, T) ==
    IF T \in DOMAIN st.singletons THEN st.singletons[T] ELSE 0

\* NewSingleton and Singleton.Init: [st, accessor]; the singleton is created
\* with value (the initializer, or the zero value) if it has no entry
NewSingleton(st, T, value) ==
    LET st1 == IF ReadSingleton(st, T) = 0 THEN AddSingleton(st, T, value).st
               ELSE st
    IN [st |-> st1,
        accessor |-> [componentType |-> T, componentPtr |-> ReadSingleton(st1, T)]]

\* Singleton.Get
SingletonGet(accessor) == accessor.componentPtr

\* ------------------------------------------------------------------- state

VARIABLES
    archetypes,   \* Storage.archetypes
    heap,         \* the EntityRef objects: heap[h] = [Id, Archetype, live]
    panicked,     \* a fatal error ended the program
    cur,          \* cur[e]: the EntityId last returned for logical entity e, 0 once deleted
    comps,        \* comps[e][T]: the value the caller gave e for type T, NilComp if none
    refOf,        \* refOf[h]: the logical entity CreateEntityRef returned h for, 0 if none
    last,         \* the latest call: [op, arg, ret]
    steps,        \* the number of calls made so far
    phase,        \* where Scheduler.Once is: idle, systems, a loop of Flush, returned
    deletes,      \* Commands.deletes: [entity] with the ghosts n and e
    removes,      \* Commands.removes: [entity, compType, n, e]
    adds,         \* Commands.adds: [entity, component, n, e]
    spawns,       \* Commands.spawns: [ts, n]
    defers,       \* Commands.defers: [n]
    deletedEntities,  \* the local map of Flush, as the set of its keys
    movedEntities,    \* the local map of Flush
    rangeLen,     \* len(c.defers) as the range statement of the defers loop took it
    pos,          \* the index of the current command in the loop phase names
    rid,          \* the local id of a running resolveId, 0 when none has iterated
    queued,       \* the number of commands queued in this tick
    applied,      \* the commands Flush has handled so far, in order
    atStart,      \* cur and comps as they were when Once was called
    systems,      \* Scheduler.systems, in registration order
    executionCount,   \* systemStats[i].executionCount
    sysIdx,       \* the index of the range loop of Once, 0 outside the loop
    frame,        \* the frame of the running Once: [id, dt]
    trace,        \* the calls Once has made: [ev, system, frame]
    pool,         \* one genericComponentStorage, as its caller holds it
    blocksCap,    \* cap(pool.blocks)
    backing,      \* the identity of the array under pool.blocks, 0 for nil
    held,         \* the pointer a caller keeps from Get: [arr, index]
    retired,      \* the arrays pool.blocks left behind that held still points into
    query,        \* one Query: [view, cachedArchetypes, lastArchetypeCount]
    singletons,   \* Storage.singletons: component type -> the dataPtr of its entry
    cells,        \* cells[p]: the value in the cell AddSingleton allocated at p
    accessors,    \* the Singleton[T] objects: [componentType, componentPtr]
    fields,       \* fields[i]: the accessor that is the Singleton field of system i, 0 if none
    ctxDone,      \* the context given to Scheduler.Run is cancelled
    running,      \* Scheduler.Run: not called, in its loop, or returned
    systemStats,  \* Scheduler.systemStats without executionCount
    measured,     \* measured[i]: the durations Once measured for system i, in order
    registeredAt  \* registeredAt[i]: the number of Once calls made before Register of i

storageVars == <<archetypes, heap, panicked, cur, comps, refOf, last>>

schedVars == <<systems, executionCount, sysIdx, frame, trace>>

tickVars == <<phase, deletes, removes, adds, spawns, defers, deletedEntities,
              movedEntities, rangeLen, pos, rid, queued, applied, atStart,
              systems, executionCount, sysIdx, frame, trace>>

poolVars == <<pool, blocksCap, backing, held, retired>>

statVars == <<systemStats, measured, registeredAt>>

\* the variables no call of Storage or Commands touches
restVars == <<pool, blocksCap, backing, held, retired, query,
             singletons, cells, accessors, fields, ctxDone, running, statVars>>

singleVars == <<singletons, cells, accessors>>

vars == <<archetypes, heap, panicked, cur, comps, refOf, last, steps,
          phase, deletes, removes, adds, spawns, defers, deletedEntities,
          movedEntities, rangeLen, pos, rid, queued, applied, atStart,
          systems, executionCount, sysIdx, frame, trace,
          pool, blocksCap, backing, held, retired, query,
          singletons, cells, accessors, fields, ctxDone, running,
          systemStats, measured, registeredAt>>

World == [archetypes |-> archetypes, heap |-> heap]

\* the logical entity the caller knows under id, 0 if none
EntityAt(id) ==
    IF \E e \in 1..Len(cur) : cur[e] = id /\ id # 0
    THEN CHOOSE e \in 1..Len(cur) : cur[e] = id
    ELSE 0

\* the ids a caller may pass: every slot of every archetype, live or not
CandidateIds ==
    {NewEntityId(aid, i) : aid \in DOMAIN archetypes, i \in 0..(MaxSlots - 1)}

\* the ids of the occupied slots, as Archetype.Iter yields them
LiveIds == UNION {ArchetypeIter(archetypes[aid]) : aid \in DOMAIN archetypes}

TypesOf(id) ==
    {archetypes[ArchetypeId(id)].types[i] :
        i \in 1..Len(archetypes[ArchetypeId(id)].types)}

\* the model's bounds on the size of a world
WithinBounds(w) ==
    \A aid \in DOMAIN w.archetypes :
        /\ Len(w.archetypes[aid].types) <= MaxTypesLen
        /\ \A i \in 1..Len(w.archetypes[aid].storages) :
               w.archetypes[aid].storages[i].nextIndex <= MaxSlots

\* the components of a spawn of the type set ts for entity e, in type order
RECURSIVE BuildComponents(_, _, _)
BuildComponents(ts, e, T) ==
    IF T > NumTypes THEN <<>>
    ELSE IF T \in ts
         THEN <<[t |-> T, o |-> e, g |-> 0]>> \o BuildComponents(ts, e, T + 1)
         ELSE BuildComponents(ts, e, T + 1)

SpawnComponents(ts, e) == BuildComponents(ts, e, 1)

Init ==
    /\ archetypes = EmptyMap
    /\ heap = <<>>
    /\ panicked = FALSE
    /\ cur = <<>>
    /\ comps = <<>>
    /\ refOf = <<>>
    /\ last = [op |-> "NewStorage", arg |-> 0, ret |-> 0]
    /\ steps = 0
    /\ phase = "idle"
    /\ deletes = <<>>
    /\ removes = <<>>
    /\ adds = <<>>
    /\ spawns = <<>>
    /\ defers = <<>>
    /\ deletedEntities = {}
    /\ movedEntities = EmptyMap
    /\ rangeLen = 0
    /\ pos = 0
    /\ rid = 0
    /\ queued = 0
    /\ applied = <<>>
    /\ atStart = [cur |-> <<>>, comps |-> <<>>]
    /\ systems = <<>>
    /\ executionCount = <<>>
    /\ sysIdx = 0
    /\ frame = [id |-> 0, dt |-> 0]
    /\ trace = <<>>
    /\ pool = NewPool(1)
    /\ blocksCap = 0
    /\ backing = 0
    /\ held = NoPointer
    /\ retired = EmptyMap
    /\ query = NewQuery([types |-> <<>>, optional |-> <<>>])
    /\ singletons = EmptyMap
    /\ cells = <<>>
    /\ accessors = <<>>
    /\ fields = <<>>
    /\ ctxDone = FALSE
    /\ running = "no"
    /\ systemStats = <<>>
    /\ measured = <<>>
    /\ registeredAt = <<>>

SetWorld(w) ==
    /\ archetypes' = w.archetypes
    /\ heap' = w.heap

\* cur after the entity known under id got the id newId
Renamed(id, newId) == [e \in 1..Len(cur) |-> IF cur[e] = id THEN newId ELSE cur[e]]

\* Storage.Spawn of the type set ts; the new entity gets the next serial
DoSpawn(ts) ==
    /\ \E e \in {Len(cur) + 1} :
       \E r \in {Spawn(World, SpawnComponents(ts, e))} :
          /\ SetWorld(r.w)
          /\ panicked' = r.panic
          /\ cur' = Append(Renamed(r.id, 0), r.id)
          /\ comps' = Append(comps, [T \in Types |->
                                       IF T \in ts THEN [t |-> T, o |-> e, g |-> 0]
                                       ELSE NilComp])
          /\ last' = [op |-> "Spawn", arg |-> 0, ret |-> r.id]
    /\ UNCHANGED refOf

OpSpawn(ts) ==
    /\ Len(cur) < MaxSpawn
    /\ WithinBounds(Spawn(World, SpawnComponents(ts, Len(cur) + 1)).w)
    /\ DoSpawn(ts)

OpDelete(id) ==
    /\ SetWorld(Delete(World, id))
    /\ cur' = Renamed(id, 0)
    /\ last' = [op |-> "Delete", arg |-> id, ret |-> 0]
    /\ UNCHANGED <<panicked, comps, refOf>>

\* Storage.AddComponent(id, component)
DoAddComponent(id, component) ==
    /\ \E e \in {EntityAt(id)} :
       \E r \in {AddComponent(World, id, component)} :
          /\ SetWorld(r.w)
          /\ panicked' = r.panic
          /\ cur' = IF r.panic THEN cur ELSE Renamed(id, r.id)
          /\ comps' = IF r.panic \/ e = 0 THEN comps
                      ELSE [comps EXCEPT ![e][component.t] = component]
          /\ last' = [op |-> "AddComponent", arg |-> id, ret |-> r.id]
    /\ UNCHANGED refOf

\* the value a caller makes for the entity known under id
NewComponent(id, T) == [t |-> T, o |-> EntityAt(id), g |-> 1]

OpAddComponent(id, T) ==
    /\ WithinBounds(AddComponent(World, id, NewComponent(id, T)).w)
    /\ DoAddComponent(id, NewComponent(id, T))

\* Storage.RemoveComponent(id, T)
DoRemoveComponent(id, T) ==
    /\ \E e \in {EntityAt(id)} :
       \E r \in {RemoveComponent(World, id, T)} :
          /\ SetWorld(r.w)
          /\ panicked' = r.panic
          /\ cur' = IF r.panic THEN cur ELSE Renamed(id, r.id)
          /\ comps' = IF r.panic \/ e = 0 THEN comps
                      ELSE [comps EXCEPT ![e][T] = NilComp]
          /\ last' = [op |-> "RemoveComponent", arg |-> id, ret |-> r.id]
    /\ UNCHANGED refOf

OpRemoveComponent(id, T) ==
    /\ WithinBounds(RemoveComponent(World, id, T).w)
    /\ DoRemoveComponent(id, T)

\* Storage.CreateEntityRef(id), while no more than n refs were ever made
CreateRefWithin(id, n) ==
    /\ LET r == CreateEntityRef(World, id)
       IN /\ Len(r.w.heap) <= n
          /\ SetWorld(r.w)
          /\ refOf' = IF r.ref = 0 THEN refOf
                      ELSE IF r.ref > Len(refOf) THEN Append(refOf, EntityAt(id))
                      ELSE [refOf EXCEPT ![r.ref] = EntityAt(id)]
          /\ last' = [op |-> "CreateEntityRef", arg |-> id, ret |-> r.ref]
    /\ UNCHANGED <<panicked, cur, comps>>

OpCreateEntityRef(id) == CreateRefWithin(id, MaxRefs)

\* Storage.InvalidateEntityRef(h) on the nil ref (h = 0) or a ref the caller
\* holds; ret is 1 for true, 0 for false
OpInvalidateEntityRef(h) ==
    /\ IF h = 0 THEN TRUE ELSE heap[h].live
    /\ SetWorld(InvalidateEntityRef(World, h).w)
    /\ last' = [op |-> "InvalidateEntityRef", arg |-> h,
                ret |-> IF InvalidateEntityRef(World, h).ok THEN 1 ELSE 0]
    /\ UNCHANGED <<panicked, cur, comps, refOf>>

\* the user drops its last pointer to the ref and the collector reclaims it
OpDropRef(h) ==
    /\ heap[h].live
    /\ heap' = [heap EXCEPT ![h].live = FALSE]
    /\ last' = [op |-> "DropRef", arg |-> h, ret |-> 0]
    /\ UNCHANGED <<archetypes, panicked, cur, comps, refOf>>

OpCompact(aid) ==
    /\ LET r == ArchetypeCompact(World, aid)
           indexMap == csCompact(archetypes[aid].storages[1]).indexMap
       IN /\ SetWorld(r.w)
          /\ panicked' = r.panic
          /\ cur' = [e \in 1..Len(cur) |->
                        IF /\ cur[e] # 0
                           /\ ArchetypeId(cur[e]) = aid
                           /\ Index(cur[e]) \in DOMAIN indexMap
                        THEN NewEntityId(aid, indexMap[Index(cur[e])])
                        ELSE cur[e]]
          /\ last' = [op |-> "Compact", arg |-> aid, ret |-> 0]
    /\ UNCHANGED <<comps, refOf>>

\* one more call, while the program runs and the model's step bound allows
Budget ==
    /\ ~panicked
    /\ steps < MaxSteps
    /\ steps' = steps + 1
    /\ UNCHANGED tickVars
    /\ UNCHANGED restVars

\* Spec: the Storage API used as documented on entities of any type set, with
\* Delete and CreateEntityRef given any id
Next ==
    \/ \E ts \in (SUBSET CallTypes) \ {{}} : Budget /\ OpSpawn(ts)
    \/ \E id \in CandidateIds : Budget /\ OpDelete(id)
    \/ \E id \in LiveIds : \E T \in CallTypes \ TypesOf(id) : Budget /\ OpAddComponent(id, T)
    \/ \E id \in LiveIds : \E T \in TypesOf(id) : Budget /\ OpRemoveComponent(id, T)
    \/ \E id \in CandidateIds : Budget /\ OpCreateEntityRef(id)
    \/ \E h \in 1..Len(heap) : Budget /\ OpInvalidateEntityRef(h)
    \/ \E h \in 1..Len(heap) : Budget /\ OpDropRef(h)
    \/ \E aid \in DOMAIN archetypes : Budget /\ OpCompact(aid)

Spec == Init /\ [][Next]_vars

\* MigSpec: one kind of use, a single entity that is spawned, given a ref and
\* then migrated by AddComponent and RemoveComponent of any type (never its
\* last component)
MigNext ==
    \/ \E ts \in (SUBSET Types) \ {{}} : Budget /\ Len(cur) = 0 /\ OpSpawn(ts)
    \/ \E id \in LiveIds : Budget /\ EntityAt(id) # 0 /\ OpCreateEntityRef(id)
    \/ \E id \in LiveIds : \E T \in Types :
           Budget /\ EntityAt(id) # 0 /\ OpAddComponent(id, T)
    \/ \E id \in LiveIds : \E T \in Types :
           /\ Budget
           /\ EntityAt(id) # 0
           /\ \E i \in 1..Len(archetypes[ArchetypeId(id)].types) :
                  archetypes[ArchetypeId(id)].types[i] # T
           /\ OpRemoveComponent(id, T)

MigSpec == Init /\ [][MigNext]_vars

\* RefSpec: entities of the one component type 1, hence one archetype, with
\* the ref operations and Compact; bounded by MaxSpawn, MaxRefs and MaxSlots
Free == ~panicked /\ UNCHANGED steps /\ UNCHANGED tickVars /\ UNCHANGED restVars

RefNext ==
    \/ Free /\ OpSpawn({1})
    \/ \E id \in CandidateIds : Free /\ OpDelete(id)
    \/ \E id \in CandidateIds : Free /\ OpCreateEntityRef(id)
    \/ \E h \in 1..Len(heap) : Free /\ OpInvalidateEntityRef(h)
    \/ \E aid \in DOMAIN archetypes : Free /\ OpCompact(aid)

RefSpec == Init /\ [][RefNext]_vars

\* the argument lists of a Spawn: one or more pairwise distinct types, in any
\* order
ArgLists ==
    {args \in UNION {[1..n -> Types] : n \in 1..NumTypes} :
        \A i, j \in 1..Len(args) : args[i] = args[j] => i = j}

\* Storage.Spawn(c1, ..., cn) with the components in the order args gives
OpSpawnArgs(args) ==
    /\ Len(cur) < MaxSpawn
    /\ \E e \in {Len(cur) + 1} :
       \E r \in {Spawn(World, [i \in 1..Len(args) |->
                                  [t |-> args[i], o |-> e, g |-> 0]])} :
          /\ WithinBounds(r.w)
          /\ SetWorld(r.w)
          /\ panicked' = r.panic
          /\ cur' = Append(Renamed(r.id, 0), r.id)
          /\ comps' = Append(comps, [T \in Types |->
                                       IF \E i \in 1..Len(args) : args[i] = T
                                       THEN [t |-> T, o |-> e, g |-> 0]
                                       ELSE NilComp])
          /\ last' = [op |-> "Spawn", arg |-> args, ret |-> r.id]
    /\ UNCHANGED refOf

\* SpawnSpec: entities spawned with any argument list, deleted, stripped of a
\* component and compacted, so that a Spawn meets fresh and reused slots
SpawnNext ==
    \/ \E args \in ArgLists : Budget /\ OpSpawnArgs(args)
    \/ \E id \in CandidateIds : Budget /\ OpDelete(id)
    \/ \E id \in LiveIds : \E T \in TypesOf(id) : Budget /\ OpRemoveComponent(id, T)
    \/ \E aid \in DOMAIN archetypes : Budget /\ OpCompact(aid)

SpawnSpec == Init /\ [][SpawnNext]_vars

\* e1 = AddComponent(id, c) and then RemoveComponent(e1, T) for c of type T
OpAddRemove(id, T) ==
    /\ \E r1 \in {AddComponent(World, id, NewComponent(id, T))} :
       \E r2 \in {IF r1.panic THEN r1 ELSE RemoveComponent(r1.w, r1.id, T)} :
          /\ WithinBounds(r1.w)
          /\ WithinBounds(r2.w)
          /\ SetWorld(r2.w)
          /\ panicked' = r2.panic
          /\ cur' = IF r2.panic THEN cur ELSE Renamed(id, r2.id)
          /\ last' = [op |-> "AddRemove", arg |-> id, ret |-> r2.id]
    /\ UNCHANGED <<comps, refOf>>

\* RoundSpec: RefSpec's calls, with Delete of occupied slots only, on
\* entities of the one type 2, and the round
\* trip of a live entity through AddComponent and RemoveComponent of a type
\* it lacks, one that sorts before its type or one that sorts after it, and
\* RemoveComponent of its one component
RoundNext ==
    \/ Free /\ OpSpawn({2})
    \/ \E id \in LiveIds : Free /\ OpDelete(id)
    \/ \E id \in CandidateIds : Free /\ OpCreateEntityRef(id)
    \/ \E h \in 1..Len(heap) : Free /\ OpInvalidateEntityRef(h)
    \/ \E aid \in DOMAIN archetypes : Free /\ OpCompact(aid)
    \/ \E id \in LiveIds : \E T \in Types \ TypesOf(id) :
           Free /\ EntityAt(id) # 0 /\ OpAddRemove(id, T)
    \/ \E id \in LiveIds : \E T \in TypesOf(id) :
           Free /\ EntityAt(id) # 0 /\ OpRemoveComponent(id, T)

RoundSpec == Init /\ [][RoundNext]_vars

\* the ids a caller may still hold: CandidateIds and an id whose archetype
\* was never created
StaleIds == CandidateIds \cup {NewEntityId(1, 0)}

\* MissingSpec: entities are spawned, deleted and compacted and refs are
\* created; Delete and AddComponent are also called with ids of no entity
MissingNext ==
    \/ \E ts \in (SUBSET CallTypes) \ {{}} : Budget /\ OpSpawn(ts)
    \/ \E id \in StaleIds : Budget /\ OpDelete(id)
    \/ \E id \in StaleIds \ LiveIds : \E T \in CallTypes :
           Budget /\ OpAddComponent(id, T)
    \/ \E id \in CandidateIds : Budget /\ OpCreateEntityRef(id)
    \/ \E aid \in DOMAIN archetypes : Budget /\ OpCompact(aid)

MissingSpec == Init /\ [][MissingNext]_vars

\* ApartSpec: up to MaxSpawn entities; Delete, AddComponent and
\* RemoveComponent are called on live entities with any type, one the entity
\* has or one it lacks, next to refs of live entities and Compact; an
\* AddComponent may fill pools up to MaxApartSlots slots
ApartNext ==
    \/ \E ts \in (SUBSET CallTypes) \ {{}} : Budget /\ OpSpawn(ts)
    \/ \E id \in LiveIds : Budget /\ EntityAt(id) # 0 /\ OpDelete(id)
    \/ \E id \in LiveIds : \E T \in CallTypes :
           /\ Budget
           /\ EntityAt(id) # 0
           /\ \A aid \in DOMAIN AddComponent(World, id, NewComponent(id, T)).w.archetypes :
                  LET a == AddComponent(World, id, NewComponent(id, T)).w.archetypes[aid]
                  IN /\ Len(a.types) <= MaxTypesLen
                     /\ \A i \in 1..Len(a.storages) :
                            a.storages[i].nextIndex <= MaxApartSlots
           /\ DoAddComponent(id, NewComponent(id, T))
    \/ \E id \in LiveIds : \E T \in CallTypes :
           Budget /\ EntityAt(id) # 0 /\ OpRemoveComponent(id, T)
    \/ \E id \in LiveIds : Budget /\ EntityAt(id) # 0 /\ OpCreateEntityRef(id)
    \/ \E aid \in DOMAIN archetypes : Budget /\ OpCompact(aid)

ApartSpec == Init /\ [][ApartNext]_vars

\* the pools of w have at most n slots each
SlotsWithin(w, n) ==
    \A aid \in DOMAIN w.archetypes :
        \A i \in 1..Len(w.archetypes[aid].storages) :
            w.archetypes[aid].storages[i].nextIndex <= n

\* ReuseSpec: up to MaxReuse entities of the types {1} and {1, 2} are
\* spawned, deleted and moved between the two archetypes by AddComponent of
\* a type they lack and RemoveComponent of a type they have, so that an
\* archetype has several released slots when an entity is placed in it
ReuseNext ==
    \/ \E ts \in {{1}, {1, 2}} :
           /\ Budget
           /\ Len(cur) < MaxReuse
           /\ SlotsWithin(Spawn(World, SpawnComponents(ts, Len(cur) + 1)).w, MaxReuse)
           /\ DoSpawn(ts)
    \/ \E id \in LiveIds : Budget /\ OpDelete(id)
    \/ \E id \in LiveIds : \E T \in CallTypes \ TypesOf(id) :
           /\ Budget
           /\ SlotsWithin(AddComponent(World, id, NewComponent(id, T)).w, MaxReuse)
           /\ DoAddComponent(id, NewComponent(id, T))
    \/ \E id \in LiveIds : \E T \in TypesOf(id) :
           /\ Budget
           /\ SlotsWithin(RemoveComponent(World, id, T).w, MaxReuse)
           /\ DoRemoveComponent(id, T)

ReuseSpec == Init /\ [][ReuseNext]_vars

\* IdemSpec: the calls of RefSpec with one more ref, so that an entity can
\* be given a ref a second time while two refs are held; Compact runs only
\* while no living entity has a ref, so that every ref of a living entity
\* was made under the id the entity has
IdemNext ==
    \/ Free /\ OpSpawn({1})
    \/ \E id \in CandidateIds : Free /\ OpDelete(id)
    \/ \E id \in CandidateIds : Free /\ CreateRefWithin(id, MaxRefs + 1)
    \/ \E h \in 0..Len(heap) : Free /\ OpInvalidateEntityRef(h)
    \/ \E aid \in DOMAIN archetypes :
           /\ Free
           /\ \A h \in 1..Len(heap) :
                  IF refOf[h] = 0 THEN TRUE ELSE cur[refOf[h]] = 0
           /\ OpCompact(aid)

IdemSpec == Init /\ [][IdemNext]_vars

\* ------------------------------------------ a pool and the pointers into it

\* the slots a caller asks for and deletes: the first and the last slot of
\* the first block, and the first slot of the second
Probes == {0, genericBlockSize - 1, genericBlockSize}

\* the value every Append stores, and the values written through a pointer
PoolItem == [t |-> 1, o |-> 1, g |-> 0]

Writes == {[t |-> 1, o |-> 1, g |-> g] : g \in 1..NumWrites}

\* the capacities append may give the array it allocates to hold n blocks
GrowCaps(n) == n..(2 * n)

PoolFrame ==
    /\ UNCHANGED <<archetypes, heap, panicked, cur, comps, refOf, query, singleVars, fields,
                   ctxDone, running, statVars>>
    /\ UNCHANGED tickVars

\* one more call of the caller that holds the pointer
PoolCall ==
    /\ steps < MaxPoolCalls
    /\ steps' = steps + 1
    /\ PoolFrame

\* Append: a block appended to cs.blocks stays in the array when its capacity
\* allows and otherwise goes, with copies of the blocks, to a new array
PoolAppend(item) ==
    LET r == csAppend(pool, item)
    IN /\ r.cs.nextIndex <= MaxPoolSlots
       /\ pool' = r.cs
       /\ IF r.cs.nblocks > pool.nblocks /\ pool.nblocks >= blocksCap
          THEN \E c \in GrowCaps(pool.nblocks + 1) :
                   /\ blocksCap' = c
                   /\ backing' = backing + 1
                   /\ retired' = IF held # NoPointer /\ held.arr = backing
                                 THEN MapPut(EmptyMap, backing, pool.blocks)
                                 ELSE retired
          ELSE UNCHANGED <<blocksCap, backing, retired>>
       /\ UNCHANGED held
       /\ last' = [op |-> "Append", arg |-> item, ret |-> r.index]
       /\ UNCHANGED steps
       /\ PoolFrame

\* Get: &cs.blocks[blockIdx][slotIdx], a pointer into the array of now
PoolGet(index) ==
    /\ held' = IF csGet(pool, index) = NilComp THEN NoPointer
               ELSE [arr |-> backing, index |-> index]
    /\ retired' = EmptyMap
    /\ last' = [op |-> "Get", arg |-> index, ret |-> held']
    /\ UNCHANGED <<pool, blocksCap, backing>>
    /\ PoolCall

\* the caller stores v through the pointer it holds
PoolWrite(v) ==
    /\ held # NoPointer
    /\ IF held.arr = backing
       THEN /\ pool' = [pool EXCEPT !.blocks = MapPut(@, held.index, v)]
            /\ UNCHANGED retired
       ELSE /\ retired' = [retired EXCEPT ![held.arr] = MapPut(@, held.index, v)]
            /\ UNCHANGED pool
    /\ last' = [op |-> "Write", arg |-> v, ret |-> held.index]
    /\ UNCHANGED <<blocksCap, backing, held>>
    /\ PoolCall

\* Delete; the caller drops a pointer to the deleted slot
PoolDelete(index) ==
    /\ pool' = csDelete(pool, index)
    /\ held' = IF held.index = index THEN NoPointer ELSE held
    /\ retired' = IF held.index = index THEN EmptyMap ELSE retired
    /\ last' = [op |-> "PoolDelete", arg |-> index, ret |-> 0]
    /\ UNCHANGED <<blocksCap, backing>>
    /\ PoolCall

\* Compact: the blocks are made anew; the caller drops its pointer
PoolCompact ==
    LET r == csCompact(pool)
    IN /\ ~r.panic
       /\ pool' = r.cs
       /\ blocksCap' = r.cs.nblocks
       /\ backing' = backing + 1
       /\ held' = NoPointer
       /\ retired' = EmptyMap
       /\ last' = [op |-> "PoolCompact", arg |-> 0, ret |-> 0]
       /\ PoolCall

\* PoolSpec: one pool of one type, filled by Append, with a caller that keeps
\* one pointer from Get and writes through it; Compact runs while the pool
\* has at most MaxCompactSlots slots
PoolNext ==
    \/ PoolAppend(PoolItem)
    \/ \E index \in Probes : PoolGet(index)
    \/ \E v \in Writes : PoolWrite(v)
    \/ \E index \in Probes : PoolDelete(index)
    \/ pool.nextIndex <= MaxCompactSlots /\ PoolCompact

PoolSpec == Init /\ [][PoolNext]_vars

\* ------------------------------------------------------- a Query in use

OpNewQuery(v) ==
    /\ query.view.types = <<>>
    /\ query' = NewQuery(v)
    /\ last' = [op |-> "NewQuery", arg |-> v, ret |-> 0]
    /\ UNCHANGED <<archetypes, heap, panicked, cur, comps, refOf, steps>>
    /\ UNCHANGED tickVars
    /\ UNCHANGED <<poolVars, singleVars, fields, ctxDone, running, statVars>>

\* one whole range over Query.Iter
OpQueryIter ==
    /\ ~panicked
    /\ query.view.types # <<>>
    /\ query' = QueryIter(World, query).q
    /\ last' = [op |-> "QueryIter", arg |-> query.view,
                ret |-> QueryIter(World, query).yields]
    /\ UNCHANGED <<archetypes, heap, panicked, cur, comps, refOf, steps>>
    /\ UNCHANGED tickVars
    /\ UNCHANGED <<poolVars, singleVars, fields, ctxDone, running, statVars>>

\* QuerySpec: Storage calls that make archetypes, move entities between them
\* and empty them, with a Query of one required type made at any time and
\* iterated at any time
QueryNext ==
    \/ \E v \in {x \in ViewShapes : Len(x.types) = 1 /\ ~x.optional[1]} :
           OpNewQuery(v)
    \/ OpQueryIter
    \/ \E ts \in (SUBSET CallTypes) \ {{}} : Budget /\ OpSpawn(ts)
    \/ \E id \in LiveIds : Budget /\ OpDelete(id)
    \/ \E id \in LiveIds : \E T \in CallTypes \ TypesOf(id) :
           Budget /\ OpAddComponent(id, T)
    \/ \E id \in LiveIds : \E T \in TypesOf(id) : Budget /\ OpRemoveComponent(id, T)
    \/ \E aid \in DOMAIN archetypes : Budget /\ OpCompact(aid)

QuerySpec == Init /\ [][QueryNext]_vars

\* ------------------------------------------------------ singletons in use

SingleFrame ==
    /\ UNCHANGED <<archetypes, heap, panicked, cur, comps, refOf, steps, query,
                   fields, ctxDone, running, statVars>>
    /\ UNCHANGED tickVars
    /\ UNCHANGED poolVars

OpAddSingleton(T, value) ==
    LET r == AddSingleton([singletons |-> singletons, cells |-> cells], T, value)
    IN /\ Len(cells) < MaxCells
       /\ singletons' = r.st.singletons
       /\ cells' = r.st.cells
       /\ last' = [op |-> "AddSingleton", arg |-> T, ret |-> r.dataPtr]
       /\ UNCHANGED accessors
       /\ SingleFrame

OpNewSingleton(T, value) ==
    LET r == NewSingleton([singletons |-> singletons, cells |-> cells], T, value)
    IN /\ Len(r.st.cells) <= MaxCells
       /\ Len(accessors) < MaxAccessors
       /\ singletons' = r.st.singletons
       /\ cells' = r.st.cells
       /\ accessors' = Append(accessors, r.accessor)
       /\ last' = [op |-> "NewSingleton", arg |-> T, ret |-> Len(accessors) + 1]
       /\ SingleFrame

\* the caller stores value through the pointer Get() of accessor a returns
OpSingletonWrite(a, value) ==
    /\ cells' = [cells EXCEPT ![SingletonGet(accessors[a])] = value]
    /\ last' = [op |-> "SingletonWrite", arg |-> a, ret |-> value]
    /\ UNCHANGED <<singletons, accessors>>
    /\ SingleFrame

\* SingleSpec: singletons of CallTypes added and added again with
\* AddSingleton, accessors made with NewSingleton, and writes through them
SingleNext ==
    \/ \E T \in CallTypes : \E value \in 0..MaxValue : OpAddSingleton(T, value)
    \/ \E T \in CallTypes : \E value \in 0..MaxValue : OpNewSingleton(T, value)
    \/ \E a \in 1..Len(accessors) : \E value \in 0..MaxValue :
           OpSingletonWrite(a, value)

SingleSpec == Init /\ [][SingleNext]_vars

\* ------------------------------------------------------ Commands, Scheduler
\* One call of Scheduler.Once: the systems queue commands into the frame's
\* buffer, then Commands.Flush runs.  A step of Flush is one iteration of
\* resolveId's loop that follows a rename, or the rest of one iteration of a
\* command loop.

\* the type sets the entities of a tick are spawned with
SetupSets == {{1}, {1, 2}}

buffers == <<deletes, removes, adds, spawns, defers>>

\* the delta times Once is called with
Dts == 1..NumDts

\* Scheduler.Register of a system with a field Singleton[T], or with no
\* Singleton field for T = 0: initializeQueries calls Init on the field, and
\* the system gets the next name
RegisterSystem(T) ==
    LET r == NewSingleton([singletons |-> singletons, cells |-> cells], T, 0)
    IN /\ ~panicked
       /\ phase \in {"idle", "returned"}
       /\ Len(systems) < MaxSystems
       /\ systems' = Append(systems, Len(systems) + 1)
       /\ executionCount' = Append(executionCount, 0)
       /\ systemStats' = Append(systemStats,
                                [name |-> Len(systems) + 1, minDuration |-> MaxInt64,
                                 maxDuration |-> 0, totalDuration |-> 0,
                                 lastDuration |-> 0])
       /\ measured' = Append(measured, <<>>)
       /\ registeredAt' = Append(registeredAt, frame.id)
       /\ IF T = 0
          THEN /\ fields' = Append(fields, 0)
               /\ UNCHANGED singleVars
          ELSE /\ Len(r.st.cells) <= MaxCells
               /\ singletons' = r.st.singletons
               /\ cells' = r.st.cells
               /\ accessors' = Append(accessors, r.accessor)
               /\ fields' = Append(fields, Len(accessors) + 1)
       /\ UNCHANGED <<storageVars, steps, poolVars, query, ctxDone, running,
                      phase, buffers,
                      deletedEntities, movedEntities, rangeLen, pos, rid, queued,
                      applied, atStart, sysIdx, frame, trace>>

Register == RegisterSystem(0)

\* the call system.Execute(frame) for the system at index i of the loop
ExecuteCall(i, f) == [ev |-> "Execute", system |-> systems[i], frame |-> f]

\* Scheduler.Once(dt) up to the first Execute: newUpdateFrame makes the frame
\* and its empty buffer, the range loop calls the first system
SchedulerOnce(dt) ==
    /\ ~panicked
    /\ phase \in {"idle", "returned"}
    /\ phase' = "systems"
    /\ frame' = [id |-> frame.id + 1, dt |-> dt]
    /\ deletes' = <<>> /\ removes' = <<>> /\ adds' = <<>>
    /\ spawns' = <<>> /\ defers' = <<>>
    /\ sysIdx' = 1
    /\ trace' = IF Len(systems) >= 1
                THEN Append(trace, ExecuteCall(1, [id |-> frame.id + 1, dt |-> dt]))
                ELSE trace
    /\ atStart' = [cur |-> cur, comps |-> comps]
    /\ queued' = 0
    /\ applied' = <<>>
    /\ UNCHANGED <<storageVars, steps, restVars, deletedEntities, movedEntities, rangeLen,
                   pos, rid, systems, executionCount>>

\* the statistics of Once after an Execute that took duration, on stats
\* without the field executionCount
updateStatsKeepsMax(stats, duration) ==
    [stats EXCEPT !.lastDuration = duration,
                  !.totalDuration = @ + duration,
                  !.minDuration = IF duration < @ THEN duration ELSE @]

updateStats(stats, duration) ==
    [stats EXCEPT !.lastDuration = duration,
                  !.totalDuration = @ + duration,
                  !.minDuration = IF duration < @ THEN duration ELSE @,
                  !.maxDuration = IF duration > @ THEN duration ELSE @]

\* the running system's Execute returns, duration after Once called it
\* (time.Since of a monotonic reading, so never negative): a system with a
\* Singleton field has added 1 to the value Get() leads to; Once updates the
\* statistics and the loop calls the next system, if there is one
ExecuteTakes(duration) ==
    /\ ~panicked
    /\ phase = "systems"
    /\ sysIdx <= Len(systems)
    /\ executionCount' = [executionCount EXCEPT ![sysIdx] = @ + 1]
    /\ systemStats' = [systemStats EXCEPT ![sysIdx] = updateStats(@, duration)]
    /\ measured' = [measured EXCEPT ![sysIdx] = Append(@, duration)]
    /\ UNCHANGED registeredAt
    /\ sysIdx' = sysIdx + 1
    /\ trace' = IF sysIdx < Len(systems)
                THEN Append(trace, ExecuteCall(sysIdx + 1, frame))
                ELSE trace
    /\ cells' = IF fields[sysIdx] = 0 THEN cells
                ELSE [cells EXCEPT ![SingletonGet(accessors[fields[sysIdx]])] = @ + 1]
    /\ UNCHANGED <<storageVars, steps, poolVars, query, singletons, accessors,
                   fields, ctxDone, running, phase, buffers, deletedEntities,
                   movedEntities, rangeLen, pos, rid, queued, applied, atStart,
                   systems, frame>>

\* an Execute whose duration rounds to no time at all
ExecuteReturns == ExecuteTakes(0)

\* the running system's Execute queues one more command
Queueing ==
    /\ ~panicked
    /\ phase = "systems"
    /\ sysIdx <= Len(systems)
    /\ queued < MaxCmds
    /\ queued' = queued + 1
    /\ UNCHANGED <<storageVars, steps, restVars, phase, deletedEntities, movedEntities, rangeLen,
                   pos, rid, applied, atStart, schedVars>>

\* a Commands.Delete that also deletes at once
CommandsDeleteEager(entity) ==
    /\ ~panicked
    /\ phase = "systems"
    /\ sysIdx <= Len(systems)
    /\ queued < MaxCmds
    /\ queued' = queued + 1
    /\ deletes' = Append(deletes, [entity |-> entity, n |-> queued + 1,
                                   e |-> EntityAt(entity)])
    /\ OpDelete(entity)
    /\ UNCHANGED <<steps, restVars, phase, removes, adds, spawns, defers, deletedEntities,
                   movedEntities, rangeLen, pos, rid, applied, atStart, schedVars>>

CommandsDelete(entity) ==
    /\ Queueing
    /\ deletes' = Append(deletes, [entity |-> entity, n |-> queued + 1,
                                   e |-> EntityAt(entity)])
    /\ UNCHANGED <<removes, adds, spawns, defers>>

CommandsRemoveComponent(entity, compType) ==
    /\ Queueing
    /\ removes' = Append(removes, [entity |-> entity, compType |-> compType,
                                   n |-> queued + 1, e |-> EntityAt(entity)])
    /\ UNCHANGED <<deletes, adds, spawns, defers>>

CommandsAddComponent(entity, T) ==
    /\ Queueing
    /\ adds' = Append(adds, [entity |-> entity, component |-> NewComponent(entity, T),
                             n |-> queued + 1, e |-> EntityAt(entity)])
    /\ UNCHANGED <<deletes, removes, spawns, defers>>

CommandsSpawn(ts) ==
    /\ Queueing
    /\ spawns' = Append(spawns, [ts |-> ts, n |-> queued + 1])
    /\ UNCHANGED <<deletes, removes, adds, defers>>

CommandsDefer ==
    /\ Queueing
    /\ defers' = Append(defers, [n |-> queued + 1])
    /\ UNCHANGED <<deletes, removes, adds, spawns>>

\* Flush with the AddComponent loop ahead of the RemoveComponent loop
PhaseOrderAddsFirst == <<"deletes", "adds", "removes", "spawns", "defers">>

\* the loops of Flush, in the order of the code
PhaseOrder == <<"deletes", "removes", "adds", "spawns", "defers">>

Buffer(p) ==
    CASE p = "deletes" -> deletes
      [] p = "removes" -> removes
      [] p = "adds" -> adds
      [] p = "spawns" -> spawns
      [] p = "defers" -> defers

\* the length of the slice the range statement of loop p iterates: the defers
\* loop, once entered, keeps the length it took
Bound(p) == IF p = "defers" /\ phase = "defers" THEN rangeLen ELSE Len(Buffer(p))

\* the first command at or after index i of loop k; past the last loop Flush
\* resets the buffer and Once returns
RECURSIVE Seek(_, _)
Seek(k, i) ==
    IF k > Len(PhaseOrder) THEN [phase |-> "returned", pos |-> 0]
    ELSE IF i <= Bound(PhaseOrder[k]) THEN [phase |-> PhaseOrder[k], pos |-> i]
    ELSE Seek(k + 1, 1)

Rank(p) == CHOOSE k \in 1..Len(PhaseOrder) : PhaseOrder[k] = p

\* control goes on to nx with the maps D and M
Continue(nx, D, M) ==
    /\ phase' = nx.phase
    /\ pos' = nx.pos
    /\ rid' = 0
    /\ IF nx.phase = "returned"
       THEN /\ deletes' = <<>> /\ removes' = <<>> /\ adds' = <<>>
            /\ spawns' = <<>> /\ defers' = <<>>
            /\ deletedEntities' = {}
            /\ movedEntities' = EmptyMap
            /\ rangeLen' = 0
       ELSE /\ UNCHANGED buffers
            /\ deletedEntities' = D
            /\ movedEntities' = M
            /\ rangeLen' = IF nx.phase = "defers" /\ phase # "defers"
                           THEN Len(defers) ELSE rangeLen

\* a panic leaves Flush where it is
Halt == UNCHANGED <<phase, buffers, deletedEntities, movedEntities, rangeLen, pos, rid>>

\* a Once that may call Flush before the range loop is over
CommandsFlushEarly ==
    /\ ~panicked
    /\ phase = "systems"
    /\ sysIdx' = 0
    /\ trace' = Append(trace, [ev |-> "Flush", system |-> 0, frame |-> frame])
    /\ Continue(Seek(1, 1), {}, EmptyMap)
    /\ UNCHANGED <<storageVars, steps, restVars, queued, applied, atStart,
                   systems, executionCount, frame>>

\* Scheduler.Once after the range loop: Flush is called
CommandsFlush ==
    /\ ~panicked
    /\ phase = "systems"
    /\ sysIdx > Len(systems)
    /\ sysIdx' = 0
    /\ trace' = Append(trace, [ev |-> "Flush", system |-> 0, frame |-> frame])
    /\ Continue(Seek(1, 1), {}, EmptyMap)
    /\ UNCHANGED <<storageVars, steps, restVars, queued, applied, atStart,
                   systems, executionCount, frame>>

Cmd == Buffer(phase)[pos]

\* the id resolveId holds
currentId == IF rid = 0 THEN Cmd.entity ELSE rid

\* resolveId: movedEntities has the id, the loop goes round with the new one
ResolveIdStep ==
    /\ ~panicked
    /\ phase \in {"deletes", "removes", "adds"}
    /\ currentId \in DOMAIN movedEntities
    /\ rid' = movedEntities[currentId]
    /\ UNCHANGED <<storageVars, steps, restVars, phase, buffers, deletedEntities,
                   movedEntities, rangeLen, pos, queued, applied, atStart, schedVars>>

\* the record of one handled command: the entity it was queued for, the
\* entity its resolved id names now, whether the first is still alive
Entry(T, skipped) ==
    [kind |-> phase, n |-> Cmd.n, target |-> Cmd.e, actual |-> EntityAt(currentId),
     alive |-> Cmd.e # 0 /\ cur[Cmd.e] # 0, T |-> T, skipped |-> skipped]

PlainEntry ==
    [kind |-> phase, n |-> Cmd.n, target |-> 0, actual |-> 0,
     alive |-> FALSE, T |-> 0, skipped |-> FALSE]

\* a Delete loop that records nothing
DeletedAfterDeleteForgets(deleted, cmd, id) == deleted

DeletedAfterDelete(deleted, cmd, id) == deleted \cup {cmd, id}

DeletedAfterRemove(deleted, cmd, id, newId) ==
    IF newId # 0 /\ newId # id THEN deleted
    ELSE IF newId = 0 THEN deleted \cup {id, cmd}
    ELSE deleted

\* a RemoveComponent loop that records no rename
MovedAfterRemoveForgets(moved, id, newId) == moved

MovedAfterRemove(moved, id, newId) ==
    IF newId # 0 /\ newId # id THEN MapPut(moved, id, newId) ELSE moved

MovedAfterAdd(moved, id, newId) ==
    IF newId # id THEN MapPut(moved, id, newId) ELSE moved

FlushDelete ==
    /\ ~panicked
    /\ phase = "deletes"
    /\ currentId \notin DOMAIN movedEntities
    /\ OpDelete(currentId)
    /\ applied' = Append(applied, Entry(0, FALSE))
    /\ Continue(Seek(Rank(phase), pos + 1),
                DeletedAfterDelete(deletedEntities, Cmd.entity, currentId),
                movedEntities)
    /\ UNCHANGED <<steps, restVars, queued, atStart, schedVars>>

FlushRemove ==
    /\ ~panicked
    /\ phase = "removes"
    /\ currentId \notin DOMAIN movedEntities
    /\ IF currentId \in deletedEntities
       THEN /\ UNCHANGED storageVars
            /\ applied' = Append(applied, Entry(Cmd.compType, TRUE))
            /\ Continue(Seek(Rank(phase), pos + 1), deletedEntities, movedEntities)
       ELSE \E r \in {RemoveComponent(World, currentId, Cmd.compType)} :
               /\ DoRemoveComponent(currentId, Cmd.compType)
               /\ applied' = Append(applied, Entry(Cmd.compType, FALSE))
               /\ IF r.panic THEN Halt
                  ELSE Continue(Seek(Rank(phase), pos + 1),
                                DeletedAfterRemove(deletedEntities, Cmd.entity,
                                                   currentId, r.id),
                                MovedAfterRemove(movedEntities, currentId, r.id))
    /\ UNCHANGED <<steps, restVars, queued, atStart, schedVars>>

FlushAdd ==
    /\ ~panicked
    /\ phase = "adds"
    /\ currentId \notin DOMAIN movedEntities
    /\ IF currentId \in deletedEntities
       THEN /\ UNCHANGED storageVars
            /\ applied' = Append(applied, Entry(Cmd.component.t, TRUE))
            /\ Continue(Seek(Rank(phase), pos + 1), deletedEntities, movedEntities)
       ELSE \E r \in {AddComponent(World, currentId, Cmd.component)} :
               /\ DoAddComponent(currentId, Cmd.component)
               /\ applied' = Append(applied, Entry(Cmd.component.t, FALSE))
               /\ IF r.panic THEN Halt
                  ELSE Continue(Seek(Rank(phase), pos + 1), deletedEntities,
                                MovedAfterAdd(movedEntities, currentId, r.id))
    /\ UNCHANGED <<steps, restVars, queued, atStart, schedVars>>

FlushSpawn ==
    /\ ~panicked
    /\ phase = "spawns"
    /\ DoSpawn(Cmd.ts)
    /\ applied' = Append(applied, PlainEntry)
    /\ Continue(Seek(Rank(phase), pos + 1), deletedEntities, movedEntities)
    /\ UNCHANGED <<steps, restVars, queued, atStart, schedVars>>

\* a deferred closure runs; what it does is outside the model
FlushDefer ==
    /\ ~panicked
    /\ phase = "defers"
    /\ applied' = Append(applied, PlainEntry)
    /\ Continue(Seek(Rank(phase), pos + 1), deletedEntities, movedEntities)
    /\ UNCHANGED <<storageVars, steps, restVars, queued, atStart, schedVars>>

\* what a deferred closure records on the buffer of the running Flush: a
\* Spawn, a Delete of a live entity, or a Defer
ClosureCommands ==
    {[kind |-> "spawns", entity |-> 0], [kind |-> "defers", entity |-> 0]}
        \cup {[kind |-> "deletes", entity |-> id] : id \in LiveIds}

\* a deferred closure runs and calls a recording method of the Commands it
\* captured: the command is appended to its list, whose loop is over or, for
\* defers, ranges over the slice taken before; the lists are cut to length 0
\* when the defers loop ends
FlushDeferRecords(c) ==
    /\ ~panicked
    /\ phase = "defers"
    /\ queued < MaxCmds
    /\ queued' = queued + 1
    /\ applied' = Append(applied, PlainEntry)
    /\ LET nx == Seek(Rank(phase), pos + 1)
       IN /\ phase' = nx.phase
          /\ pos' = nx.pos
          /\ rid' = 0
          /\ IF nx.phase = "returned"
             THEN /\ deletes' = <<>> /\ removes' = <<>> /\ adds' = <<>>
                  /\ spawns' = <<>> /\ defers' = <<>>
                  /\ deletedEntities' = {}
                  /\ movedEntities' = EmptyMap
                  /\ rangeLen' = 0
             ELSE /\ spawns' = IF c.kind = "spawns"
                               THEN Append(spawns, [ts |-> {1}, n |-> queued + 1])
                               ELSE spawns
                  /\ deletes' = IF c.kind = "deletes"
                                THEN Append(deletes, [entity |-> c.entity, n |-> queued + 1,
                                                      e |-> EntityAt(c.entity)])
                                ELSE deletes
                  /\ defers' = IF c.kind = "defers"
                               THEN Append(defers, [n |-> queued + 1])
                               ELSE defers
                  /\ UNCHANGED <<removes, adds, deletedEntities, movedEntities, rangeLen>>
    /\ UNCHANGED <<storageVars, steps, restVars, atStart, schedVars>>

\* TickSpec: one system is registered, a world of up to MaxSpawn entities is
\* set up, then one Scheduler.Once runs, where the system queues up to MaxCmds
\* commands on live entities
TickNext ==
    \/ Len(cur) = 0 /\ Len(systems) = 0 /\ Register
    \/ \E ts \in SetupSets : phase = "idle" /\ Free /\ OpSpawn(ts)
    \/ phase = "idle" /\ Len(systems) = 1 /\ SchedulerOnce(1)
    \/ ExecuteReturns
    \/ \E id \in LiveIds : CommandsDelete(id)
    \/ \E id \in LiveIds : \E T \in Types : CommandsRemoveComponent(id, T)
    \/ \E id \in LiveIds : \E T \in Types : CommandsAddComponent(id, T)
    \/ \E ts \in SetupSets : CommandsSpawn(ts)
    \/ CommandsDefer
    \/ CommandsFlush
    \/ ResolveIdStep
    \/ FlushDelete
    \/ FlushRemove
    \/ FlushAdd
    \/ FlushSpawn
    \/ FlushDefer

TickSpec == Init /\ [][TickNext]_vars

\* Flush is running
InFlush == phase \in {"deletes", "removes", "adds", "spawns", "defers"}

\* where Flush is: its loop, the index in it, the id resolveId holds
control == <<phase, pos, rid>>

\* a running Flush moves on: to the next iteration of resolveId, to the next
\* command, or to its return
FlushAdvances ==
    /\ InFlush
    /\ ~panicked
    /\ phase' \in {"deletes", "removes", "adds", "spawns", "defers", "returned"}
    /\ pos' \in 0..MaxCmds
    /\ rid' \in {0} \cup {movedEntities[k] : k \in DOMAIN movedEntities}

\* FairTickSpec: one entity, then one Scheduler.Once, where a running Flush
\* keeps moving on: the goroutine that runs Once is not suspended forever
FairTickNext ==
    \/ Len(cur) = 0 /\ Len(systems) = 0 /\ Register
    \/ \E ts \in SetupSets : phase = "idle" /\ Len(cur) = 0 /\ Free /\ OpSpawn(ts)
    \/ phase = "idle" /\ Len(systems) = 1 /\ SchedulerOnce(1)
    \/ ExecuteReturns
    \/ \E id \in LiveIds : CommandsDelete(id)
    \/ \E id \in LiveIds : \E T \in Types : CommandsRemoveComponent(id, T)
    \/ \E id \in LiveIds : \E T \in Types : CommandsAddComponent(id, T)
    \/ \E ts \in SetupSets : CommandsSpawn(ts)
    \/ CommandsDefer
    \/ CommandsFlush
    \/ ResolveIdStep
    \/ FlushDelete
    \/ FlushRemove
    \/ FlushAdd
    \/ FlushSpawn
    \/ FlushDefer

FairTickSpec == Init /\ [][FairTickNext]_vars /\ WF_control(FlushAdvances)

\* a system is executing
InExecute == phase = "systems" /\ sysIdx <= Len(systems)

\* SchedSpec: up to MaxSystems systems and up to MaxTicks calls of
\* Scheduler.Once with any delta time on a Storage that starts empty; a
\* running system queues commands and also spawns entities of the one type 1
\* and deletes entities directly on the Storage
SchedNext ==
    \/ Register
    \/ \E dt \in Dts : frame.id < MaxTicks /\ SchedulerOnce(dt)
    \/ ExecuteReturns
    \/ InExecute /\ steps < MaxDirect /\ Budget /\ OpSpawn({1})
    \/ \E id \in LiveIds : InExecute /\ steps < MaxDirect /\ Budget /\ OpDelete(id)
    \/ \E id \in LiveIds : queued < MaxTickCmds /\ CommandsDelete(id)
    \/ \E id \in LiveIds : \E T \in TypesOf(id) :
           queued < MaxTickCmds /\ CommandsRemoveComponent(id, T)
    \/ \E id \in LiveIds : \E T \in CallTypes \ TypesOf(id) :
           queued < MaxTickCmds /\ CommandsAddComponent(id, T)
    \/ queued < MaxTickCmds /\ CommandsSpawn({1})
    \/ queued < MaxTickCmds /\ CommandsDefer
    \/ CommandsFlush
    \/ ResolveIdStep
    \/ FlushDelete
    \/ FlushRemove
    \/ FlushAdd
    \/ FlushSpawn
    \/ FlushDefer

SchedSpec == Init /\ [][SchedNext]_vars

\* DeferSpec: one system, entities of the one type 1, and up to MaxTicks
\* calls of Scheduler.Once, where the system queues Spawn, Delete and Defer
\* and a deferred closure records further commands on the same buffer
DeferNext ==
    \/ Len(systems) = 0 /\ Register
    \/ phase = "idle" /\ Free /\ OpSpawn({1})
    \/ Len(systems) = 1 /\ frame.id < MaxTicks /\ SchedulerOnce(1)
    \/ ExecuteReturns
    \/ \E id \in LiveIds : queued < MaxTickCmds /\ CommandsDelete(id)
    \/ queued < MaxTickCmds /\ CommandsSpawn({1})
    \/ queued < MaxTickCmds /\ CommandsDefer
    \/ CommandsFlush
    \/ FlushDelete
    \/ FlushSpawn
    \/ FlushDefer
    \/ \E c \in ClosureCommands : FlushDeferRecords(c)

DeferSpec == Init /\ [][DeferNext]_vars

\* CountSpec: a singleton of type 1 is added with AddSingleton, NewSingleton
\* makes accessors of it, systems with and without a Singleton field of the
\* type are registered, and up to MaxTicks calls of Scheduler.Once run them
CountNext ==
    \/ \E value \in 0..MaxValue : OpAddSingleton(1, value)
    \/ \E value \in 0..MaxValue : OpNewSingleton(1, value)
    \/ \E T \in 0..1 : RegisterSystem(T)
    \/ frame.id < MaxTicks /\ SchedulerOnce(1)
    \/ ExecuteReturns
    \/ CommandsFlush

CountSpec == Init /\ [][CountNext]_vars

\* Scheduler.GetStats
RECURSIVE SumSeq(_)
SumSeq(q) == IF q = <<>> THEN 0 ELSE Head(q) + SumSeq(Tail(q))

GetStats ==
    [SystemCount |-> Len(systems),
     TotalExecutions |-> SumSeq(executionCount),
     Systems |-> [i \in 1..Len(systemStats) |->
                     [Name |-> systemStats[i].name,
                      ExecutionCount |-> executionCount[i],
                      MinDuration |-> systemStats[i].minDuration,
                      MaxDuration |-> systemStats[i].maxDuration,
                      AvgDuration |-> IF executionCount[i] > 0
                                      THEN systemStats[i].totalDuration
                                               \div executionCount[i]
                                      ELSE 0,
                      LastDuration |-> systemStats[i].lastDuration,
                      TotalDuration |-> systemStats[i].totalDuration]]]

\* StatSpec: up to MaxSystems systems registered at any time between up to
\* MaxTicks calls of Scheduler.Once, each Execute taking 0..MaxNanos
StatNext ==
    \/ Register
    \/ frame.id < MaxTicks /\ SchedulerOnce(1)
    \/ \E duration \in 0..MaxNanos : ExecuteTakes(duration)
    \/ CommandsFlush

StatSpec == Init /\ [][StatNext]_vars

\* ------------------------------------------------------- EntityId in use

\* the uint32 values of IdSpec: both limbs among the NumEdge least and the
\* NumEdge greatest limbs
Uint32s ==
    LET limbs == (0..(NumEdge - 1)) \cup ((LimbMask - NumEdge + 1)..LimbMask)
    IN {<<hi, lo>> : hi \in limbs, lo \in limbs}

OpNewEntityId(archetypeId, index) ==
    /\ last' = [op |-> "NewEntityId", arg |-> <<archetypeId, index>>,
                ret |-> NewEntityId64(archetypeId, index)]
    /\ UNCHANGED <<archetypes, heap, panicked, cur, comps, refOf, steps>>
    /\ UNCHANGED tickVars
    /\ UNCHANGED restVars

\* IdSpec: calls of NewEntityId in any order
IdNext == \E archetypeId \in Uint32s : \E index \in Uint32s :
              OpNewEntityId(archetypeId, index)

IdSpec == Init /\ [][IdNext]_vars

\* ------------------------------------------------------------ Scheduler.Run

RunFrame ==
    UNCHANGED <<storageVars, steps, poolVars, query, singleVars, fields, tickVars,
                statVars>>

\* Scheduler.Run is called and reaches its select
RunCalled ==
    /\ running = "no"
    /\ phase = "idle"
    /\ running' = "loop"
    /\ UNCHANGED ctxDone
    /\ RunFrame

\* the owner of the context cancels it
CtxCancel ==
    /\ ~ctxDone
    /\ ctxDone' = TRUE
    /\ UNCHANGED running
    /\ RunFrame

\* the select of Run takes the case <-ctx.Done(): Run returns
RunReturns ==
    /\ running = "loop"
    /\ phase \in {"idle", "returned"}
    /\ ctxDone
    /\ running' = "returned"
    /\ UNCHANGED ctxDone
    /\ RunFrame

\* the goroutine in Once moves on: a system returns, Flush is called, Flush
\* goes to the next iteration of resolveId, to the next command, or returns
OnceAdvances ==
    /\ ~panicked
    /\ phase \in {"systems", "deletes", "removes", "adds", "spawns", "defers"}
    /\ phase' \in {"systems", "deletes", "removes", "adds", "spawns", "defers",
                   "returned"}
    /\ pos' \in 0..MaxCmds
    /\ rid' \in {0} \cup {movedEntities[k] : k \in DOMAIN movedEntities}
    /\ sysIdx' \in 0..(MaxSystems + 1)

\* RunSpec: one system and one entity, then Scheduler.Run, whose select
\* takes the ticker's case up to MaxRunTicks times and calls Once, where the
\* system queues commands on the entity; the context is cancelled at any
\* time.  The goroutine of Run is not suspended forever, and a select that
\* finds the context cancelled again and again takes that case in the end.
RunNext ==
    \/ Len(cur) = 0 /\ Len(systems) = 0 /\ Register
    \/ phase = "idle" /\ running = "no" /\ Len(cur) = 0 /\ Free /\ OpSpawn({1, 2})
    \/ Len(systems) = 1 /\ RunCalled
    \/ CtxCancel
    \/ RunReturns
    \/ running = "loop" /\ frame.id < MaxRunTicks /\ SchedulerOnce(1)
    \/ ExecuteReturns
    \/ \E id \in LiveIds : \E T \in TypesOf(id) : CommandsRemoveComponent(id, T)
    \/ \E id \in LiveIds : \E T \in Types : CommandsAddComponent(id, T)
    \/ CommandsFlush
    \/ ResolveIdStep
    \/ FlushRemove
    \/ FlushAdd

RunSpec ==
    /\ Init
    /\ [][RunNext]_vars
    /\ WF_<<phase, pos, rid, sysIdx>>(OnceAdvances)
    /\ SF_running(RunReturns)

\* ------------------------------------------------------------------ claims

\* the refs the user still holds
HeldRefs == {h \in 1..Len(heap) : heap[h].live}

\* slot (aid, index) is occupied in every pool of its archetype
Occupied(w, id) ==
    /\ ArchetypeId(id) \in DOMAIN w.archetypes
    /\ \A i \in 1..Len(w.archetypes[ArchetypeId(id)].storages) :
           csHas(w.archetypes[ArchetypeId(id)].storages[i], Index(id))

\* C1: a ref created for a live entity resolves, after any AddComponent and
\* RemoveComponent calls on the entity's current id, to the id the latest
\* call returned; the entity's components are read under that id with the
\* values the caller gave them, and right after a migration nothing is read
\* under the previous id.
C1_RefFollowsMigration ==
    /\ \A h \in HeldRefs :
           (refOf[h] # 0 /\ cur[refOf[h]] # 0) =>
               /\ ResolveEntityRef(World, h) = <<cur[refOf[h]], TRUE>>
               /\ \A T \in Types :
                      GetComponent(World, cur[refOf[h]], T) = comps[refOf[h]][T]
    /\ (last.op \in {"AddComponent", "RemoveComponent"}) =>
           \A T \in Types : GetComponent(World, last.arg, T) = NilComp

\* C10: every ref a user still holds has Id = 0, or its Id names an existing
\* archetype and a slot occupied in it and that archetype's weak table maps
\* the Id back to the ref; so no two held refs carry the same non-zero Id.
C10_HeldRefsNameOccupiedSlots ==
    /\ \A h \in HeldRefs :
           \/ heap[h].Id = 0
           \/ /\ Occupied(World, heap[h].Id)
              /\ heap[h].Id \in DOMAIN archetypes[ArchetypeId(heap[h].Id)].refs
              /\ archetypes[ArchetypeId(heap[h].Id)].refs[heap[h].Id] = h
    /\ \A h1, h2 \in HeldRefs :
           (heap[h1].Id # 0 /\ heap[h1].Id = heap[h2].Id) => h1 = h2

\* C2: a ref that resolves to (0, false) resolves to (0, false) after every
\* later call, whatever that call is.
C2_InvalidatedStaysInvalid ==
    [][\A h \in HeldRefs :
           ResolveEntityRef(World, h) = <<0, FALSE>> =>
               ResolveEntityRef([archetypes |-> archetypes', heap |-> heap'], h)
                   = <<0, FALSE>>]_vars

\* a ref invalidated with its entity, while a second entity occupies the slot
\* the first one freed and holds a valid ref created on the reused id
C2_Witness ==
    \E h, h2 \in HeldRefs :
        /\ heap[h].Id = 0 /\ refOf[h] # 0 /\ cur[refOf[h]] = 0
        /\ heap[h2].Id # 0 /\ refOf[h2] # 0 /\ cur[refOf[h2]] = heap[h2].Id
        /\ Cardinality(DOMAIN archetypes) = 1
        /\ Index(heap[h2].Id) = 0
        /\ archetypes[ArchetypeId(heap[h2].Id)].storages[1].nextIndex = 1

\* the entities stored in pool cs, slot by slot in ascending order
Survivors(cs) ==
    LET read == {i \in 0..(cs.nextIndex - 1) : i \in cs.filled}
        nth(k) == CHOOSE i \in read : Cardinality({j \in read : j < i}) = k - 1
    IN [k \in 1..Cardinality(read) |-> cs.blocks[nth(k)]]

C8_CompactKeepsRefs ==
    [][(last'.op = "Compact" /\ ~panicked') =>
           LET aid == last'.arg
               post == [archetypes |-> archetypes', heap |-> heap']
           IN /\ \A h \in HeldRefs :
                     (/\ refOf[h] # 0
                      /\ cur[refOf[h]] # 0
                      /\ heap[h].Id = cur[refOf[h]]
                      /\ ArchetypeId(heap[h].Id) = aid
                      /\ Occupied(World, heap[h].Id)) =>
                         /\ ResolveEntityRef(post, h)[2]
                         /\ \A T \in Types :
                                GetComponent(post, ResolveEntityRef(post, h)[1], T)
                                    = GetComponent(World, heap[h].Id, T)
              /\ \A h \in HeldRefs :
                     heap[h].Id = 0 => ResolveEntityRef(post, h) = <<0, FALSE>>
              /\ \A i \in 1..Len(archetypes[aid].storages) :
                     Survivors(archetypes'[aid].storages[i])
                         = Survivors(archetypes[aid].storages[i])]_vars

\* ---- the command buffer

\* the commands of the tick as <<kind, entity queued for, type, serial>>: the
\* buffer while Flush runs, the handled commands once it has returned
Queued ==
    IF phase = "returned"
    THEN {<<applied[i].kind, applied[i].target, applied[i].T, applied[i].n>> :
              i \in 1..Len(applied)}
    ELSE {<<"deletes", deletes[i].e, 0, deletes[i].n>> : i \in 1..Len(deletes)}
         \cup {<<"removes", removes[i].e, removes[i].compType, removes[i].n>> :
                   i \in 1..Len(removes)}
         \cup {<<"adds", adds[i].e, adds[i].component.t, adds[i].n>> :
                   i \in 1..Len(adds)}
         \cup {<<"spawns", 0, 0, spawns[i].n>> : i \in 1..Len(spawns)}
         \cup {<<"defers", 0, 0, defers[i].n>> : i \in 1..Len(defers)}

\* the types entity e had when Once was called
StartTypes(e) == {T \in Types : atStart.comps[e][T] # NilComp}

\* every value stored in some pool of the world
StoredValues ==
    UNION {UNION {{archetypes[aid].storages[i].blocks[k] :
                       k \in archetypes[aid].storages[i].filled} :
                  i \in 1..Len(archetypes[aid].storages)} :
           aid \in DOMAIN archetypes}

\* each entity is asked to drop only types it has and to take only types it
\* lacks or is asked to drop, and no type twice in one kind of command
SoundBuffer ==
    /\ \A c \in Queued :
           /\ c[1] = "removes" => c[3] \in StartTypes(c[2])
           /\ c[1] = "adds" =>
                  \/ c[3] \notin StartTypes(c[2])
                  \/ <<"removes", c[2], c[3]>> \in {<<d[1], d[2], d[3]>> : d \in Queued}
    /\ \A c, d \in Queued :
           (c[1] \in {"removes", "adds"} /\ c[1] = d[1] /\ c[2] = d[2] /\ c[3] = d[3])
               => c = d

\* as SoundBuffer, and no entity is asked to take a type it has
DisjointBuffer ==
    /\ SoundBuffer
    /\ \A c \in Queued : c[1] = "adds" => c[3] \notin StartTypes(c[2])

\* C3: Flush applies every RemoveComponent and AddComponent to the entity
\* that held the command's id when the flush began, and skips it only if that
\* entity was deleted earlier in the flush.
C3_CommandsReachTheirEntity ==
    (InFlush \/ phase = "returned") /\ DisjointBuffer =>
        \A i \in 1..Len(applied) :
            applied[i].kind \in {"removes", "adds"} =>
                /\ ~applied[i].skipped => applied[i].actual = applied[i].target
                /\ applied[i].skipped => ~applied[i].alive

\* C4: a Flush that has started returns (or the program panics): resolveId
\* and the command loops terminate.
C4_FlushTerminates ==
    (InFlush /\ SoundBuffer) ~> (phase = "returned" \/ panicked)

KindRank(k) ==
    CASE k = "deletes" -> 1
      [] k = "removes" -> 2
      [] k = "adds" -> 3
      [] k = "spawns" -> 4
      [] k = "defers" -> 5

\* C5: Flush handles the Deletes, then the RemoveComponents, then the
\* AddComponents, then the Spawns, then the Defers, each kind in the order of
\* queueing, and by its return it has handled every queued command once.
C5_FlushOrder ==
    /\ \A i, j \in 1..Len(applied) :
           i < j =>
               \/ KindRank(applied[i].kind) < KindRank(applied[j].kind)
               \/ /\ applied[i].kind = applied[j].kind
                  /\ applied[i].n < applied[j].n
    /\ (phase = "returned" /\ ~panicked) =>
           /\ Len(applied) = queued
           /\ {applied[i].n : i \in 1..Len(applied)} = 1..queued

\* Once has returned after three commands, the last queued one handled first
\* and two of one kind after it
C5_Witness ==
    /\ phase = "returned"
    /\ Len(applied) = 3
    /\ applied[1].n = 3
    /\ applied[2].kind = applied[3].kind
    /\ applied[1].kind # applied[2].kind

\* the entities a handled Delete was queued for
Doomed == {applied[i].target : i \in {j \in 1..Len(applied) : applied[j].kind = "deletes"}}

\* C6: once Flush has handled Delete(e), every AddComponent and
\* RemoveComponent queued for e is skipped, and no pool holds a value of e:
\* neither e's data nor a component queued for it.
C6_DeleteWins ==
    /\ \A i \in 1..Len(applied) :
           (applied[i].kind \in {"removes", "adds"} /\ applied[i].target \in Doomed)
               => applied[i].skipped
    /\ \A e \in Doomed : cur[e] = 0 /\ ~\E v \in StoredValues : v.o = e

\* Once has returned; an AddComponent queued before the Delete of the same
\* entity was skipped, and so was a RemoveComponent
C6_Witness ==
    /\ phase = "returned"
    /\ \E i, j, k \in 1..Len(applied) :
           /\ applied[i].kind = "deletes"
           /\ applied[j].kind = "adds"
           /\ applied[k].kind = "removes"
           /\ applied[j].target = applied[i].target
           /\ applied[k].target = applied[i].target
           /\ applied[j].n < applied[i].n
           /\ applied[j].skipped /\ applied[k].skipped

RemovedTypes == {c[3] : c \in {d \in Queued : d[1] = "removes"}}

AddedTypes == {c[3] : c \in {d \in Queued : d[1] = "adds"}}

\* one live entity, commands only for it: removes of a proper subset of its
\* types, adds of types it lacks, no type twice, no Delete and no Spawn
SingleEntityBuffer ==
    /\ Len(atStart.cur) = 1
    /\ atStart.cur[1] # 0
    /\ \A c \in Queued : c[1] \in {"removes", "adds", "defers"}
    /\ \A c, d \in Queued : (c[3] # 0 /\ c[3] = d[3]) => c = d
    /\ RemovedTypes \subseteq StartTypes(1)
    /\ RemovedTypes # StartTypes(1)
    /\ AddedTypes \cap StartTypes(1) = {}

C11_QueueingLeavesStorage ==
    [][/\ (queued' = queued + 1) => (archetypes' = archetypes /\ heap' = heap)
       /\ (phase = "systems" /\ <<archetypes', heap'>> # <<archetypes, heap>>) =>
              (InExecute /\ phase' = "systems" /\ steps' = steps + 1
               /\ buffers' = buffers)
       /\ (phase \in {"idle", "returned"}) =>
              (archetypes' = archetypes /\ heap' = heap)]_vars

\* the second system of the second tick runs: an entity spawned directly in
\* this tick is there, and so is the entity a Delete is queued for
C11_Witness ==
    /\ frame.id = 2
    /\ InExecute
    /\ sysIdx = 2
    /\ Len(cur) > Len(atStart.cur)
    /\ cur[Len(cur)] \in LiveIds
    /\ Len(deletes) = 1
    /\ deletes[1].e # 0
    /\ cur[deletes[1].e] = deletes[1].entity
    /\ deletes[1].entity \in LiveIds

\* C12: the calls of each Once are Execute on the registered systems, once
\* each and in registration order, all with the frame of that Once, and then
\* Flush once; Flush is called when every system's Execute has returned, and
\* Once does not return without it.
C12_OncePerSystemThenFlush ==
    /\ [](\A i \in 1..Len(trace) :
            LET f == trace[i].frame
                m == Cardinality({j \in 1..i : trace[j].frame.id = f.id})
            IN /\ \A j \in 1..i : trace[j].frame.id <= f.id
               /\ \A j \in 1..i : trace[j].frame.id = f.id => trace[j].frame = f
               /\ trace[i].ev = "Execute" => trace[i].system = systems[m]
               /\ trace[i].ev = "Flush" =>
                      \A j \in (i + 1)..Len(trace) : trace[j].frame.id > f.id)
    /\ [][/\ \A i \in 1..Len(trace) : Len(trace') >= i /\ trace'[i] = trace[i]
          /\ (Len(trace') > Len(trace) /\ trace'[Len(trace')].ev = "Flush") =>
                 /\ {trace[j].system :
                        j \in {k \in 1..Len(trace) : trace[k].frame = frame}}
                        = {systems[k] : k \in 1..Len(systems)}
                 /\ \A k \in 1..Len(systems) :
                        executionCount[k] =
                            Cardinality({j \in 1..Len(trace) :
                                trace[j].ev = "Execute" /\ trace[j].system = systems[k]})
          /\ (phase # "returned" /\ phase' = "returned") =>
                 \E j \in 1..Len(trace') :
                     trace'[j].ev = "Flush" /\ trace'[j].frame = frame]_vars

\* two ticks have returned: the first ran one system, the second two, each
\* with its own frame
C12_Witness ==
    /\ phase = "returned"
    /\ frame.id = 2
    /\ Len(systems) = 2
    /\ Len(trace) = 5
    /\ trace[2].ev = "Flush"
    /\ trace[5].ev = "Flush"
    /\ trace[1].frame.dt # trace[5].frame.dt
    /\ queued = MaxTickCmds

\* ---- the Storage calls

C14_AddRemoveRoundTrip ==
    [][(last'.op = "AddRemove") =>
           LET id == last'.arg
               e2 == last'.ret
               post == [archetypes |-> archetypes', heap |-> heap']
           IN /\ ~panicked'
              /\ e2 # 0
              /\ \A T \in Types :
                     GetComponent(post, e2, T) = GetComponent(World, id, T)
              /\ \A h \in HeldRefs :
                     (refOf[h] = EntityAt(id)
                      /\ ResolveEntityRef(World, h) = <<id, TRUE>>) =>
                         ResolveEntityRef(post, h) = <<e2, TRUE>>]_vars

\* the second of two entities has made the round trip with a type that sorts
\* before its own, after the first was deleted; its ref resolves to the id
\* the round trip returned
C14_Witness ==
    /\ last.op = "AddRemove"
    /\ ~panicked
    /\ Len(cur) = 2
    /\ cur[1] = 0
    /\ cur[2] = last.ret
    /\ Index(last.ret) = 1
    /\ Cardinality(DOMAIN archetypes) = 2
    /\ \E aid \in DOMAIN archetypes : archetypes[aid].types = <<1, 2>>
    /\ \E h \in HeldRefs :
           refOf[h] = 2 /\ ResolveEntityRef(World, h) = <<last.ret, TRUE>>

\* C15: RemoveComponent of the only component of a live entity does not
\* fail, returns 0, leaves nothing to read under the entity's id, makes every
\* ref of the entity resolve to (0, false) and creates no archetype.
C15_RemoveLastComponent ==
    [][(/\ last'.op = "RemoveComponent"
        /\ EntityAt(last'.arg) # 0
        /\ Len(archetypes[ArchetypeId(last'.arg)].types) = 1) =>
           LET id == last'.arg
               post == [archetypes |-> archetypes', heap |-> heap']
           IN /\ ~panicked'
              /\ last'.ret = 0
              /\ \A T \in Types : GetComponent(post, id, T) = NilComp
              /\ DOMAIN archetypes' = DOMAIN archetypes
              /\ \A h \in HeldRefs :
                     (refOf[h] = EntityAt(id)
                      /\ ResolveEntityRef(World, h) = <<id, TRUE>>) =>
                         ResolveEntityRef(post, h) = <<0, FALSE>>]_vars

\* C16: AddComponent with an id of no entity (no such archetype, or a slot
\* that is not occupied) ends in a fatal error; it changes no pool and no new
\* archetype holds a value after it.
C16_AddToMissingIsFatal ==
    [][(last'.op = "AddComponent" /\ last'.arg \notin LiveIds) =>
           /\ panicked'
           /\ \A aid \in DOMAIN archetypes :
                  archetypes'[aid].storages = archetypes[aid].storages
           /\ \A aid \in DOMAIN archetypes' \ DOMAIN archetypes :
                  \A i \in 1..Len(archetypes'[aid].storages) :
                      archetypes'[aid].storages[i].filled = {}]_vars

\* C18: Delete with an id of no live entity (no such archetype, a slot never
\* allocated or a slot released) does not fail and changes no pool, no
\* freelist, no weak table and no ref.
C18_DeleteOfMissingIsNoOp ==
    [][(last'.op = "Delete" /\ last'.arg \notin LiveIds) =>
           /\ ~panicked'
           /\ archetypes' = archetypes
           /\ heap' = heap]_vars

\* C17: Flush raises no fatal error, and a Delete, RemoveComponent or
\* AddComponent whose id names a slot that is not occupied (its entity was
\* deleted before the flush) leaves the Storage as it is.
C17_FlushIgnoresDead ==
    /\ []((InFlush \/ phase = "returned") => ~panicked)
    /\ [][(/\ phase \in {"deletes", "removes", "adds"}
           /\ Len(applied') = Len(applied) + 1
           /\ currentId = Cmd.entity
           /\ Cmd.entity \notin LiveIds) =>
              (archetypes' = archetypes /\ heap' = heap)]_vars

\* C19: CreateEntityRef(id) for a live entity that has a ref the caller still
\* holds, created for the entity and naming its id, returns that same ref and
\* changes neither the weak table nor a ref.
C19_CreateEntityRefIsIdempotent ==
    [][(last'.op = "CreateEntityRef" /\ last'.arg \in LiveIds) =>
           \A h \in HeldRefs :
               (/\ EntityAt(last'.arg) # 0
                /\ refOf[h] = EntityAt(last'.arg)
                /\ heap[h].Id = last'.arg) =>
                   /\ last'.ret = h
                   /\ archetypes' = archetypes
                   /\ heap' = heap]_vars

\* ---------------------------------------------------------------- the pools

\* C20: a write through the pointer Get(slot) returned is read by a later
\* Get(slot), whatever was appended in between, as long as the slot was not
\* deleted and the pool not compacted.
C20_PointerAliasesSlot ==
    [][last'.op = "Write" => csGet(pool', held.index) = last'.arg]_vars

\* ---------------------------------------------------------------- the views

C23_AccessorsReadCurrentCell ==
    \A a \in 1..Len(accessors) :
        SingletonGet(accessors[a]) =
            ReadSingleton([singletons |-> singletons, cells |-> cells],
                          accessors[a].componentType)

\* the value ReadSingleton finds for type T in st, -1 if T has no entry
SingletonValue(st, T) ==
    IF ReadSingleton(st, T) = 0 THEN -1 ELSE st.cells[ReadSingleton(st, T)]

\* C24: Register of a system with a field Singleton[T] leaves T with an
\* entry, of value zero if it had none and of its old value otherwise;
\* NewSingleton leaves an existing value as it is; and every Execute of a
\* system that adds 1 through its field adds 1 to the value of T, which
\* nothing else in Once changes.
C24_RegisterEnsuresSingleton ==
    [][LET st == [singletons |-> singletons, cells |-> cells]
           st1 == [singletons |-> singletons', cells |-> cells']
       IN /\ (Len(fields') = Len(fields) + 1 /\ fields'[Len(fields')] # 0) =>
                 LET T == accessors'[fields'[Len(fields')]].componentType
                 IN /\ ReadSingleton(st1, T) # 0
                    /\ SingletonValue(st1, T) =
                           IF ReadSingleton(st, T) = 0 THEN 0
                           ELSE SingletonValue(st, T)
          /\ (Len(accessors') = Len(accessors) + 1 /\ fields' = fields) =>
                 LET T == accessors'[Len(accessors')].componentType
                 IN ReadSingleton(st, T) # 0 =>
                        SingletonValue(st1, T) = SingletonValue(st, T)
          /\ \A i \in 1..Len(fields) :
                 (fields[i] # 0 /\ executionCount'[i] = executionCount[i] + 1) =>
                     LET T == accessors[fields[i]].componentType
                     IN SingletonValue(st1, T) = SingletonValue(st, T) + 1
          /\ (executionCount' = executionCount /\ phase' # phase) =>
                 \A T \in DOMAIN singletons :
                     SingletonValue(st1, T) = SingletonValue(st, T)]_vars

\* ------------------------------------------------------------------ the run

\* C25: once the context is cancelled Run returns (or the program has ended
\* in a fatal error), it returns only from its select between two ticks, and
\* only when the context is cancelled.
C25_RunReturnsOnCancel ==
    /\ (ctxDone /\ running = "loop") ~> (running = "returned" \/ panicked)
    /\ [][(running = "loop" /\ running' = "returned") =>
              ctxDone /\ phase \in {"idle", "returned"}]_vars

\* ------------------------------------------------------------ failed spawns

\* the argument lists of FailSpec: none, one or two distinct types, among
\* them the unregistered type and the types of a disallowed kind
FailArgs ==
    {args \in UNION {[1..n -> Types \cup {Unregistered} \cup BadTypes] :
                        n \in 0..MaxFailArgs} :
        \A i, j \in 1..Len(args) : args[i] = args[j] => i = j}

\* FailSpec: spawns with any of FailArgs between deletes, removes and compacts
FailNext ==
    \/ \E args \in FailArgs : Budget /\ OpSpawnArgs(args)
    \/ \E id \in CandidateIds : Budget /\ OpDelete(id)
    \/ \E id \in LiveIds : \E T \in TypesOf(id) : Budget /\ OpRemoveComponent(id, T)
    \/ \E aid \in DOMAIN archetypes : Budget /\ OpCompact(aid)

FailSpec == Init /\ [][FailNext]_vars

\* C26: a Storage.Spawn with no component, with a component of kind Ptr, Map,
\* Chan or Func, or with a component of an unregistered type panics and
\* leaves the archetype map, every pool in it and the refs as they were
C26_FailedSpawnChangesNothing ==
    [][(/\ last'.op = "Spawn"
        /\ \/ Len(last'.arg) = 0
           \/ \E i \in 1..Len(last'.arg) : last'.arg[i] \in BadTypes
           \/ \E i \in 1..Len(last'.arg) : last'.arg[i] = Unregistered)
       => (panicked' /\ archetypes' = archetypes /\ heap' = heap)]_vars

\* a spawn of a registered and the unregistered type has just panicked in a
\* Storage that holds an archetype with an entity
C26_Witness ==
    /\ panicked
    /\ last.op = "Spawn"
    /\ Len(last.arg) = 2
    /\ \E i, j \in 1..2 : last.arg[i] \in Types /\ last.arg[j] = Unregistered
    /\ \E aid \in DOMAIN archetypes : csIter(archetypes[aid].storages[1]) # {}

\* --------------------------------------------------- InvalidateEntityRef

\* C27: InvalidateEntityRef(r) on a valid ref returns true, zeroes r, removes
\* the weak-table entry of r and changes nothing else (every pool, every other
\* ref and every other table entry stay), and CreateEntityRef on the id r had
\* then returns a new valid ref; on the nil ref or an invalid ref it returns
\* false and changes nothing.
C27_InvalidateSeversOneRef ==
    [][last'.op = "InvalidateEntityRef" =>
           LET h == last'.arg
               post == [archetypes |-> archetypes', heap |-> heap']
           IN IF h # 0 /\ heap[h].Id # 0
              THEN /\ last'.ret = 1
                   /\ heap'[h].Id = 0
                   /\ \A g \in 1..Len(heap) : g # h => heap'[g] = heap[g]
                   /\ DOMAIN archetypes' = DOMAIN archetypes
                   /\ \A aid \in DOMAIN archetypes :
                          /\ archetypes'[aid].storages = archetypes[aid].storages
                          /\ \A k \in DOMAIN archetypes'[aid].refs :
                                 archetypes'[aid].refs[k] # h
                          /\ \A k \in DOMAIN archetypes[aid].refs :
                                 archetypes[aid].refs[k] # h =>
                                     /\ k \in DOMAIN archetypes'[aid].refs
                                     /\ archetypes'[aid].refs[k] = archetypes[aid].refs[k]
                   /\ LET c == CreateEntityRef(post, heap[h].Id)
                      IN /\ c.ref > Len(heap)
                         /\ ResolveEntityRef(c.w, c.ref) = <<heap[h].Id, TRUE>>
              ELSE /\ last'.ret = 0
                   /\ archetypes' = archetypes
                   /\ heap' = heap]_vars

\* ------------------------------------------------------- Compact, repeated

\* the components a Spawn gives an entity of the types of archetype a
FreshComponents(a) ==
    [i \in 1..Len(a.types) |-> [t |-> a.types[i], o |-> MaxSpawn + 1, g |-> 0]]

\* C28: a second Archetype.Compact right after a Compact that returned does
\* not panic and leaves the occupied slots, the value of every slot, the id
\* of every EntityRef and the weak table as the first one left them; and a
\* Compact of an archetype that holds no entity returns and leaves it empty,
\* after which a Spawn into it gets slot 0 and its values are read back.
C28_CompactIsIdempotent ==
    [][(/\ last'.op = "Compact"
        /\ IF ArchetypeIter(archetypes[last'.arg]) = {} THEN TRUE ELSE ~panicked') =>
           LET aid == last'.arg
               post == [archetypes |-> archetypes', heap |-> heap']
               once == post.archetypes[aid]
               again == ArchetypeCompact(post, aid)
               twice == again.w.archetypes[aid]
               spawned == Spawn(post, FreshComponents(once))
           IN /\ ~panicked'
              /\ ~again.panic
              /\ again.w.heap = post.heap
              /\ twice.refs = once.refs
              /\ DOMAIN again.w.archetypes = DOMAIN post.archetypes
              /\ \A other \in DOMAIN post.archetypes :
                     other # aid => again.w.archetypes[other] = post.archetypes[other]
              /\ \A i \in 1..Len(once.storages) :
                     /\ csIter(twice.storages[i]) = csIter(once.storages[i])
                     /\ \A slot \in csIter(once.storages[i]) :
                            csGet(twice.storages[i], slot) = csGet(once.storages[i], slot)
              /\ ArchetypeIter(archetypes[aid]) = {} =>
                     /\ ArchetypeIter(once) = {}
                     /\ ~spawned.panic
                     /\ spawned.id = NewEntityId(aid, 0)
                     /\ ArchetypeIter(spawned.w.archetypes[aid]) = {spawned.id}
                     /\ \A i \in 1..Len(once.types) :
                            GetComponent(spawned.w, spawned.id, once.types[i])
                                = FreshComponents(once)[i]]_vars

\* a Compact has just moved the second entity into the slot the deleted
\* first one left, and the ref the caller holds on it names the new id
C28_Witness ==
    /\ last.op = "Compact"
    /\ ~panicked
    /\ Len(cur) = 2 /\ cur[1] = 0 /\ cur[2] # 0
    /\ ArchetypeId(cur[2]) = last.arg /\ Index(cur[2]) = 0
    /\ \E h \in HeldRefs :
           /\ refOf[h] = 2
           /\ heap[h].Id = cur[2]
           /\ cur[2] \in DOMAIN archetypes[last.arg].refs

\* ------------------------------------------------------------- statistics

\* C29: GetStats reports SystemCount = the number of registered systems and
\* one entry per system in registration order; TotalExecutions is the sum of
\* the ExecutionCounts; a system's ExecutionCount is the number of Once
\* calls made since it was registered (once those calls have run their
\* systems), its TotalDuration the sum of its measured durations, its
\* LastDuration the latest of them, and once it has executed
\* MinDuration <= AvgDuration <= MaxDuration.
C29_StatsMatchExecutions ==
    LET st == GetStats
    IN /\ st.SystemCount = Len(systems)
       /\ Len(st.Systems) = Len(systems)
       /\ st.TotalExecutions = SumSeq([i \in 1..Len(systems) |-> Len(measured[i])])
       /\ \A i \in 1..Len(systems) :
              LET sys == st.Systems[i]
              IN /\ sys.Name = systems[i]
                 /\ sys.ExecutionCount = Len(measured[i])
                 /\ (phase # "systems" \/ sysIdx > i) =>
                        sys.ExecutionCount = frame.id - registeredAt[i]
                 /\ sys.TotalDuration = SumSeq(measured[i])
                 /\ sys.ExecutionCount > 0 =>
                        /\ sys.LastDuration = measured[i][Len(measured[i])]
                        /\ sys.MinDuration <= sys.AvgDuration
                        /\ sys.AvgDuration <= sys.MaxDuration

\* two systems, the second registered after the first Once, and after the
\* second Once the first has an average that the division rounded down
C29_Witness ==
    /\ phase = "returned"
    /\ Len(systems) = 2
    /\ registeredAt = <<0, 1>>
    /\ measured[1] = <<2, 1>>
    /\ measured[2] = <<2>>
    /\ GetStats.Systems[1].AvgDuration = 1
    /\ GetStats.TotalExecutions = 3

\* ---------------------------------------------------------------- EntityId

\* C30: for all 32-bit a and i, NewEntityId(a, i).ArchetypeId() = a and
\* NewEntityId(a, i).Index() = i, and two calls of NewEntityId with
\* different pairs return different ids.
C30_EntityIdRoundTrips ==
    /\ [](last.op = "NewEntityId" =>
              /\ ArchetypeId64(last.ret) = last.arg[1]
              /\ Index64(last.ret) = last.arg[2])
    /\ [][(/\ last.op = "NewEntityId"
           /\ last'.op = "NewEntityId"
           /\ last'.arg # last.arg) => last'.ret # last.ret]_vars

\* NewEntityId(0xFFFFFFFF, 0xFFFFFFFE) has returned 0xFFFFFFFFFFFFFFFE
C30_Witness ==
    /\ last.op = "NewEntityId"
    /\ last.arg = <<<<LimbMask, LimbMask>>, <<LimbMask, LimbMask - 1>>>>
    /\ last.ret = <<LimbMask, LimbMask, LimbMask, LimbMask - 1>>

\* ------------------------------------------------------- pools in lockstep

\* C31: in every state the Storage operations reach, all pools of one
\* archetype have the same set of occupied slots, and hence return the same
\* old-to-new map from Compact.
C31_PoolsShareOccupiedSlots ==
    \A aid \in DOMAIN archetypes :
        \A i, j \in 1..Len(archetypes[aid].storages) :
            /\ csIter(archetypes[aid].storages[i]) = csIter(archetypes[aid].storages[j])
            /\ csCompact(archetypes[aid].storages[i]).indexMap
                   = csCompact(archetypes[aid].storages[j]).indexMap

\* ------------------------------------------------------ the entity count

\* C32: TotalEntityCount grows by 1 on each Spawn, falls by 1 on each Delete
\* of a live entity and on each RemoveComponent of the last component of a
\* live entity, and is the same after every other AddComponent or
\* RemoveComponent on a live entity, after Compact and after the calls on
\* refs.
C32_EntityCountFollowsCalls ==
    [][~panicked' =>
           LET before == CollectStats(World).TotalEntityCount
               after == CollectStats([archetypes |-> archetypes',
                                      heap |-> heap']).TotalEntityCount
               op == last'.op
               live == last'.arg \in LiveIds
           IN /\ op = "Spawn" => after = before + 1
              /\ (op = "Delete" /\ live) => after = before - 1
              /\ (op = "RemoveComponent" /\ live) =>
                     after = IF last'.ret = 0 THEN before - 1 ELSE before
              /\ (op = "AddComponent" /\ live) => after = before
              /\ op \in {"Compact", "CreateEntityRef", "InvalidateEntityRef",
                          "DropRef"} => after = before]_vars

\* ------------------------------------------------------ the other entities

\* C33: a Delete, AddComponent or RemoveComponent on a live entity leaves
\* every other live entity under its EntityId with its component set and its
\* values, and every ref of another entity resolving to the id it resolved to.
C33_OthersUntouched ==
    [][(/\ last'.op \in {"Delete", "AddComponent", "RemoveComponent"}
        /\ EntityAt(last'.arg) # 0
        /\ ~panicked') =>
           LET post == [archetypes |-> archetypes', heap |-> heap']
           IN /\ \A x \in 1..Len(cur) :
                     (cur[x] # 0 /\ x # EntityAt(last'.arg)) =>
                         /\ cur[x] \in ArchetypeIter(post.archetypes[ArchetypeId(cur[x])])
                                <=> cur[x] \in LiveIds
                         /\ \A T \in Types :
                                /\ HasComponent(post, cur[x], T)
                                       = HasComponent(World, cur[x], T)
                                /\ GetComponent(post, cur[x], T)
                                       = GetComponent(World, cur[x], T)
              /\ \A h \in 1..Len(heap) :
                     (/\ heap[h].live
                      /\ refOf[h] # 0
                      /\ refOf[h] # EntityAt(last'.arg)) =>
                         ResolveEntityRef(post, h) = ResolveEntityRef(World, h)]_vars

\* ------------------------------------------------------------ slot reuse

\* C34: a Spawn, AddComponent or RemoveComponent that places an entity in an
\* archetype with released slots gives it the slot released last and takes
\* that slot off the freelist of every pool; with no released slot it gives
\* the next never-used index, which grows by one.  So the EntityId of an
\* entity just deleted is the id of the next entity placed in its archetype.
C34_PlacementReusesLastReleased ==
    [][(/\ last'.op \in {"Spawn", "AddComponent", "RemoveComponent"}
        /\ last'.ret # 0
        /\ ~panicked') =>
           LET aid == ArchetypeId(last'.ret)
               new == archetypes'[aid]
               n == Len(new.storages)
               \* the pools before the entity was placed
               old == IF aid \in DOMAIN archetypes THEN archetypes[aid].storages
                      ELSE [i \in 1..n |-> NewPool(new.types[i])]
           IN /\ \A i \in 1..n :
                     IF Len(old[i].freeSlots) > 0
                     THEN /\ Index(last'.ret) = old[i].freeSlots[Len(old[i].freeSlots)]
                          /\ new.storages[i].nextIndex = old[i].nextIndex
                          /\ new.storages[i].freeSlots
                                 = SubSeq(old[i].freeSlots, 1, Len(old[i].freeSlots) - 1)
                     ELSE /\ Index(last'.ret) = old[i].nextIndex
                          /\ new.storages[i].nextIndex = old[i].nextIndex + 1
              /\ (last.op = "Delete" /\ ArchetypeId(last.arg) = aid) =>
                     last'.ret = last.arg]_vars

\* the third entity spawned has just got slot 1 of an archetype whose slots
\* 0 and 1 were released in that order
C34_Witness ==
    /\ last.op = "Spawn"
    /\ ~panicked
    /\ Len(cur) = 3 /\ cur[1] = 0 /\ cur[2] = 0
    /\ Index(last.ret) = 1
    /\ archetypes[ArchetypeId(last.ret)].storages[1].freeSlots = <<0>>
    /\ archetypes[ArchetypeId(last.ret)].storages[1].nextIndex = 2

\* ------------------------------------------------------------ HasComponent

\* C35: for every EntityId, of a live entity or not, and every type T,
\* HasComponent(id, T) is true exactly when GetComponent(id, T) is not nil.
C35_HasIffGet ==
    \A id \in StaleIds : \A T \in Types :
        HasComponent(World, id, T) <=> GetComponent(World, id, T) # NilComp

\* ----------------------------------------------------- View.Get and Fill

\* C36: for every view shape and every EntityId, View.Fill returns true and
\* View.Get a record exactly when the id names a live entity whose archetype
\* has every required type of the view; for the id of an unknown archetype
\* or of an unoccupied slot they return false and nil.
C36_ViewGetOnlyLive ==
    \A v \in ViewShapes : \A id \in StaleIds :
        LET wanted == /\ id \in LiveIds
                      /\ matchesArchetype(v, archetypes[ArchetypeId(id)])
        IN /\ ViewFill(World, v, id).ok <=> wanted
           /\ ViewGet(World, v, id) # <<>> <=> wanted

\* ------------------------------------------- a Delete queued more than once

\* C37: in the delete loop of Flush, the first Delete(e) of a live entity e
\* removes e and nothing else (the entity count drops by one, the live ids
\* lose e's id only, and every other entity keeps its id and its component
\* values), and every further Delete(e) of the same flush leaves the Storage
\* as it is.
C37_RepeatedDeleteRemovesOne ==
    [][(/\ phase = "deletes"
        /\ Len(applied') = Len(applied) + 1
        /\ Cmd.e # 0) =>
           IF cur[Cmd.e] = Cmd.entity
           THEN /\ CollectStats(World').TotalEntityCount
                       = CollectStats(World).TotalEntityCount - 1
                /\ LiveIds' = LiveIds \ {Cmd.entity}
                /\ cur'[Cmd.e] = 0
                /\ \A x \in 1..Len(cur) : x # Cmd.e =>
                       /\ cur'[x] = cur[x]
                       /\ \A T \in Types :
                              GetComponent(World', cur[x], T)
                                  = GetComponent(World, cur[x], T)
           ELSE (cur[Cmd.e] = 0 /\ Cmd.entity \in deletedEntities) =>
                    /\ archetypes' = archetypes
                    /\ heap' = heap
                    /\ cur' = cur]_vars

\* Flush has handled two Delete commands of one entity that was alive when
\* the first ran, and another entity lives on
C37_Witness ==
    /\ LiveIds # {}
    /\ \E i, j \in 1..Len(applied) :
           /\ i < j
           /\ applied[i].kind = "deletes" /\ applied[j].kind = "deletes"
           /\ applied[i].target # 0
           /\ applied[i].target = applied[j].target
           /\ applied[i].alive

\* ---------------------------------------- commands recorded during Flush

\* C38: when Once has returned, every command recorded on the Commands of the
\* tick, by a system or by a deferred closure that ran during Flush, has been
\* handled by Flush exactly once.
C38_EveryCommandAppliedOnce ==
    phase = "returned" =>
        \A n \in 1..queued :
            Cardinality({i \in 1..Len(applied) : applied[i].n = n}) = 1

\* ------------------------------------------------- the freelist of a pool

\* C39: in a pool, no index is on the freelist twice, every occupied slot is
\* below nextIndex, and the freelist holds exactly the unoccupied slots below
\* nextIndex.
C39_FreelistPartitionsSlots ==
    LET free == {pool.freeSlots[i] : i \in 1..Len(pool.freeSlots)}
    IN /\ Cardinality(free) = Len(pool.freeSlots)
       /\ pool.filled \subseteq 0..(pool.nextIndex - 1)
       /\ free = (0..(pool.nextIndex - 1)) \ pool.filled

\* a Delete of an index past nextIndex has returned on a pool with occupied
\* and released slots
C39_Witness ==
    /\ last.op = "PoolDelete"
    /\ last.arg >= pool.nextIndex
    /\ pool.freeSlots # <<>>
    /\ pool.filled # {}

====
